---- MODULE Spec2Model ----
(***************************************************************************)
(* Route-query cache of the La Defense mobility dashboard:                 *)
(* utils/route_cache.py (RouteCache), utils/cache_integration.py           *)
(* (EnhancedCachedRoutePlanner) and utils/data_lake_utils.py.              *)
(*                                                                         *)
(* Time is counted in whole minutes.  The in-process tier is the pair of   *)
(* dicts memory_cache / memory_cache_expiry; the durable tier is the       *)
(* object store reached through save_json_to_data_lake and                 *)
(* read_json_from_data_lake.                                               *)
(***************************************************************************)
EXTENDS Integers, Sequences, FiniteSets, TLC

(***************************************************************************)
(* Bounds of the model.                                                    *)
(***************************************************************************)
\* Number of distinct payloads a put may store.
MaxPayload == 2
\* Size cap of the in-process tier.  The source's cap is 100
\* (route_cache.py:92); the model keeps the comparison and scales the number
\* down so that an insertion can exceed it with the keys below.
MemoryCacheLimit == 1
\* Largest request count a popularity record reaches.
MaxCount == 2
\* Requests a dashboard thread issues.
MaxRequests == 1
\* get_popular_routes is called with limits 1..MaxLimit
MaxLimit == 2
\* Keys one list_objects_v2 call returns.  S3 returns at most 1000 keys per
\* call; the model keeps the truncation and scales the number down to the
\* keys below.
ListPageSize == 1
\* Listings, reads and deletes that fail during one sweep.
MaxFailures == 1
\* The most candidates handed to a ranker.
MaxRoutes == 3

(***************************************************************************)
(* Program constants (CacheConfig).                                        *)
(***************************************************************************)
routes_ttl_minutes == 60
api_responses_ttl_minutes == 10
popular_routes_ttl_minutes == 30
\* getattr(self.config, f"{cache_type}_ttl_minutes", 60): the TTL the sweep
\* gives a category CacheConfig has no field for.
DefaultTtlMinutes == 60

(***************************************************************************)
(* Program constants of the route synthesis.  Distances are in hundredths  *)
(* of a kilometre.                                                         *)
(***************************************************************************)
\* "Walking" in transport_modes and distance_km <= 4.0
WalkingCutoff == 400
\* walking_time = int(distance_km * 12)
WalkingMinutesPerKm == 12
\* if walking_time > 60: return {}
WalkingCap == 60
\* distance_km = 2.5 when a station has no coordinates
DefaultDistance == 250

\* get_with_retries(url, max_retries=3, backoff_factor=2, ...)
DefaultMaxRetries == 3
DefaultBackoffFactor == 2

\* Cache keys.  A key stands for an md5 digest.  "route" is a key of the
\* routes category (object cache/routes/<key>.json), read and written by
\* cache_route_result / get_cached_route and by cache_route_with_time /
\* get_cached_route_with_time; "api" is the key of an API response (object
\* cache/api_responses/<api>_<key>.json, memory key "api_<key>").  Both live in
\* the one memory_cache of a RouteCache.
RouteKeys == {"route"}
ApiKeys == {"api"}
Keys == RouteKeys \cup ApiKeys

\* The route entries under the keys of RouteCache._generate_cache_key, which
\* only the pre-warming writes (one per pair, for its preferences and modes),
\* and a second API entry, which only the writers next to the sweep write.
PlainRouteKeys == {"plainAB", "plainBA"}
AllRouteKeys == RouteKeys \cup PlainRouteKeys
MoreApiKeys == {"api2"}
AllApiKeys == ApiKeys \cup MoreApiKeys
StoredKeys == AllRouteKeys \cup AllApiKeys

Payloads == 1..MaxPayload

\* Instants (minutes) the clock takes: an entry written at 0 is read 9 and 10
\* minutes later (around the 10 minute TTL) and 59 and 60 minutes later
\* (around the 60 minute TTL).
Instants == {0, 9, 10, 59, 60}

VARIABLES
    now,                  \* datetime.now(), in minutes
    memory_cache,         \* RouteCache.memory_cache: key -> entry
    memory_cache_expiry,  \* RouteCache.memory_cache_expiry, in insertion order
    s3_objects,           \* durable tier: key -> stored object
    last_op,              \* the operation that ran last
    last_get,             \* what the last get did and returned
    last_put,             \* the last put
    last_set,             \* what the last _set_memory_cache did
    query1, query2,       \* two route queries handed to the key derivations
    timed_keys,           \* their keys by _generate_cache_key_with_time
    plain_keys,           \* their keys by RouteCache._generate_cache_key
    popularity,           \* durable object cache/popular_routes/popularity.json
    last_plan,            \* what the last route request did and returned
    pc,                   \* per thread: the statement it is about to run
    local,                \* per thread: the locals of its request, its result
    requests,             \* per thread: requests started
    last_writer,          \* the thread whose durable write came last (0: none)
    last_track,           \* what the last track_popular_routes did
    last_top,             \* what the last get_popular_routes returned
    last_sweep,           \* what the last cleanup_expired_cache did
    prewarm,              \* the pre-warming run: its position and its locals
    synth,                \* a query of the synthesizer and its result
    ranking,              \* candidates and preferences handed to a ranker, and its output
    retries,              \* a call of get_with_retries: position, attempts, waits
    matrix,               \* the object cache/travel_times/matrix_latest.json
    sweeper,              \* a cleanup_expired_cache running beside the requests
    last_build            \* what the last build_travel_time_matrix was given and found

cacheVars == <<now, memory_cache, memory_cache_expiry, s3_objects>>
histVars == <<last_op, last_get, last_put, last_set>>
keyVars == <<query1, query2, timed_keys, plain_keys>>
planVars == <<popularity, last_plan>>
threadVars == <<pc, local, requests, last_writer>>
libVars == <<synth, ranking, retries, matrix, sweeper, last_build>>
auxVars == <<last_track, last_top, last_sweep, prewarm, libVars>>
vars == <<cacheVars, histVars, keyVars, planVars, threadVars, auxVars>>

(***************************************************************************)
(* Stored objects.  kind is "absent" (no object under the key), "garbage"  *)
(* (bytes json.loads rejects) or "object" (a JSON object); an object may   *)
(* lack the 'timestamp' field or the payload field ('routes' for a route   *)
(* entry, 'response_data' for an API entry).                               *)
(***************************************************************************)
Absent ==
    [kind |-> "absent", has_timestamp |-> FALSE, timestamp |-> 0,
     has_payload |-> FALSE, payload |-> 0]

CacheEntry(t, p) ==
    [kind |-> "object", has_timestamp |-> TRUE, timestamp |-> t,
     has_payload |-> TRUE, payload |-> p]

TtlOf(k) == IF k \in AllApiKeys THEN api_responses_ttl_minutes ELSE routes_ttl_minutes

\* A store write that keeps an object already under the key.
SaveJsonIfAbsent(objects, k, data, up) ==
    IF up /\ objects[k].kind = "absent" THEN [objects EXCEPT ![k] = data] ELSE objects

\* save_json_to_data_lake: put_object overwrites the object; an exception of
\* the store is caught and the object stays as it was.
SaveJsonToDataLake(objects, k, data, up) ==
    IF up THEN [objects EXCEPT ![k] = data] ELSE objects

\* read_json_from_data_lake: the parsed object, or None (Absent here) when the
\* store fails, the key does not exist or json.loads raises.
ReadJsonFromDataLake(objects, k, up) ==
    IF up /\ objects[k].kind = "object" THEN objects[k] ELSE Absent

\* _is_cache_valid: datetime.now() < cache_time + ttl.
IsCacheValid(cache_timestamp, ttl_minutes, t) ==
    t < cache_timestamp + ttl_minutes

(***************************************************************************)
(* The in-process tier.  memory_cache_expiry is a dict iterated by min(),  *)
(* so its insertion order is kept: a sequence of [key, expiry].            *)
(***************************************************************************)
ExpiryKeys(me) == {me[i].key : i \in DOMAIN me}

ExpiryOf(me, k) == me[CHOOSE i \in DOMAIN me : me[i].key = k].expiry

SetExpiry(me, k, e) ==
    IF k \in ExpiryKeys(me)
    THEN [i \in DOMAIN me |->
            IF me[i].key = k THEN [key |-> k, expiry |-> e] ELSE me[i]]
    ELSE Append(me, [key |-> k, expiry |-> e])

DelExpiry(me, k) == SelectSeq(me, LAMBDA r : r.key # k)

SetItem(mc, k, data) ==
    [x \in DOMAIN mc \cup {k} |-> IF x = k THEN data ELSE mc[x]]

DelItem(mc, k) == [x \in DOMAIN mc \ {k} |-> mc[x]]

\* The first key, in insertion order, whose expiry is maximal.
NewestKey(me) ==
    LET i == CHOOSE i \in DOMAIN me :
                 \A j \in DOMAIN me :
                     \/ me[j].expiry < me[i].expiry
                     \/ (me[j].expiry = me[i].expiry /\ j >= i)
    IN me[i].key

\* min(self.memory_cache_expiry.keys(), key=lambda k: expiry[k]): the first
\* key, in insertion order, whose expiry is minimal.
OldestKey(me) ==
    LET i == CHOOSE i \in DOMAIN me :
                 \A j \in DOMAIN me :
                     \/ me[j].expiry > me[i].expiry
                     \/ (me[j].expiry = me[i].expiry /\ j >= i)
    IN me[i].key

\* _get_from_memory_cache: the entry when the key is in both dicts and not
\* expired; an expired key is removed from both dicts.
GetFromMemoryCache(mc, me, k, t) ==
    IF k \in DOMAIN mc /\ k \in ExpiryKeys(me)
    THEN IF t < ExpiryOf(me, k)
         THEN [found |-> TRUE, entry |-> mc[k], cache |-> mc, expiry |-> me]
         ELSE [found |-> FALSE, entry |-> Absent,
               cache |-> DelItem(mc, k), expiry |-> DelExpiry(me, k)]
    ELSE [found |-> FALSE, entry |-> Absent, cache |-> mc, expiry |-> me]

\* _set_memory_cache: store under the key with expiry now + ttl, then, when
\* the dict holds more than the cap, delete the key of minimal expiry.
SetMemoryCache(mc, me, k, data, ttl_minutes, t) ==
    LET mc1 == SetItem(mc, k, data)
        me1 == SetExpiry(me, k, t + ttl_minutes)
    IN IF Cardinality(DOMAIN mc1) > MemoryCacheLimit
       THEN LET oldest_key == OldestKey(me1)
            IN [cache |-> DelItem(mc1, oldest_key),
                expiry |-> DelExpiry(me1, oldest_key),
                called |-> TRUE, inserted |-> me1]
       ELSE [cache |-> mc1, expiry |-> me1, called |-> TRUE, inserted |-> me1]

\* No call of _set_memory_cache.
NotSet(mc, me) == [cache |-> mc, expiry |-> me, called |-> FALSE, inserted |-> me]

(***************************************************************************)
(* get: get_cached_route, get_cached_route_with_time and                   *)
(* get_cached_api_response share one body.  outcome is "hit" (a payload    *)
(* is returned), "miss" (None) or "raise" (a KeyError leaves the call).    *)
(***************************************************************************)
GetResult(k, outcome, source, entry, read, s) ==
    [key |-> k, outcome |-> outcome, source |-> source,
     timestamp |-> entry.timestamp, payload |-> entry.payload,
     durable_read |-> read, cache |-> s.cache, expiry |-> s.expiry, set |-> s]

GetCached(mc, me, objects, k, t, up) ==
    LET m == GetFromMemoryCache(mc, me, k, t)
        cached_data == ReadJsonFromDataLake(objects, k, up)
        unset == NotSet(m.cache, m.expiry)
    IN IF m.found
       THEN \* return cached['routes']
            IF m.entry.has_payload
            THEN GetResult(k, "hit", "memory", m.entry, FALSE, unset)
            ELSE GetResult(k, "raise", "memory", m.entry, FALSE, unset)
       ELSE IF cached_data.kind = "object"
            THEN IF ~cached_data.has_timestamp
                 THEN \* cached_data['timestamp'] raises KeyError
                      GetResult(k, "raise", "durable", cached_data, TRUE, unset)
                 ELSE IF IsCacheValid(cached_data.timestamp, TtlOf(k), t)
                      THEN LET s == SetMemoryCache(m.cache, m.expiry, k,
                                                   cached_data, TtlOf(k), t)
                           IN IF cached_data.has_payload
                              THEN GetResult(k, "hit", "durable", cached_data,
                                             TRUE, s)
                              ELSE \* return cached_data['routes'] raises KeyError
                                   GetResult(k, "raise", "durable", cached_data,
                                             TRUE, s)
                      ELSE GetResult(k, "miss", "none", Absent, TRUE, unset)
            ELSE GetResult(k, "miss", "none", Absent, TRUE, unset)

(***************************************************************************)
(* Records of what the last operation did.                                 *)
(***************************************************************************)
NoGet ==
    [key |-> "route", outcome |-> "none", source |-> "none",
     timestamp |-> 0, payload |-> 0, durable_read |-> FALSE, up |-> TRUE,
     in_memory_before |-> FALSE]

NoPut == [key |-> "route", done |-> FALSE, timestamp |-> 0, payload |-> 0,
          saved |-> FALSE, at_capacity |-> FALSE]

NoSet == [called |-> FALSE, key |-> "route", overflow |-> FALSE,
          n_evicted |-> 0, soonest |-> TRUE]

\* What a call of _set_memory_cache for key k did: whether the insertion took
\* the size over the cap, how many keys it then removed, and whether every
\* removed key had the soonest expiry of all entries present after the insertion.
SetInfo(k, s) ==
    IF ~s.called THEN NoSet
    ELSE LET evicted == ExpiryKeys(s.inserted) \ ExpiryKeys(s.expiry)
         IN [called |-> TRUE, key |-> k,
             overflow |-> Len(s.inserted) > MemoryCacheLimit,
             n_evicted |-> Cardinality(evicted),
             soonest |-> \A e \in evicted : \A i \in DOMAIN s.inserted :
                            ExpiryOf(s.inserted, e) <= s.inserted[i].expiry]

\* RouteCache.__init__: both dicts empty; the store holds no cache object.
InitCache ==
    /\ now = 0
    /\ memory_cache = << >>
    /\ memory_cache_expiry = << >>
    /\ s3_objects = [k \in StoredKeys |-> Absent]
    /\ last_op = "init"
    /\ last_get = NoGet
    /\ last_put = NoPut
    /\ last_set = NoSet

\* No query is being fingerprinted.
NoQuery ==
    [origin |-> "", destination |-> "", preferences |-> << >>,
     transport_modes |-> << >>,
     departure_time |-> [present |-> FALSE, hour |-> 0, minute |-> 0],
     date |-> 0]

InitNoKeys ==
    /\ query1 = NoQuery
    /\ query2 = NoQuery
    /\ timed_keys = << >>
    /\ plain_keys = << >>

\* The popularity object: kind as for the cache objects; an object may lack
\* its 'routes' field; routes maps a pair "origin|destination" to its count
\* (0: no record).
PopularPairs == {"A|B", "B|A"}

\* The pair of the route query the key "route" stands for.
RequestPairs == {"A|B"}

\* No popularity.json.  'routes' is a dict: a sequence, in insertion order, of
\* the records [key, count, last_requested]; timestamp is the object's own.
NoPopularity ==
    [kind |-> "absent", has_routes |-> FALSE, timestamp |-> 0, routes |-> << >>]

RecordKeys(routes) == {routes[i].key : i \in DOMAIN routes}

\* popularity_data['routes'][route_key]['count'], 0 without a record.
CountOf(pop, pair) ==
    IF pair \in RecordKeys(pop.routes)
    THEN pop.routes[CHOOSE i \in DOMAIN pop.routes : pop.routes[i].key = pair].count
    ELSE 0

NoPlan ==
    [result |-> "none", payload |-> 0, calc |-> "none", calc_payload |-> 0,
     source |-> "none", key |-> "route", computed |-> 0, wrote |-> FALSE,
     down |-> FALSE]

InitNoPlan ==
    /\ popularity = NoPopularity
    /\ last_plan = NoPlan

\* The dashboard sessions: each runs its script in a thread of its own, and
\* all share the one planner (st.cache_resource), so one RouteCache.
Threads == {1, 2}

\* Locals of a thread that runs no request.
IdleLocal ==
    [key |-> "route", calc |-> "none", p |-> 0, popularity_data |-> NoPopularity,
     data |-> Absent, mode |-> "none", iter_len |-> 0, oldest_key |-> "route",
     missed |-> FALSE, written |-> Absent,
     result |-> "none", payload |-> 0, failed |-> FALSE]

InitNoThreads ==
    /\ pc = [t \in Threads |-> "idle"]
    /\ local = [t \in Threads |-> IdleLocal]
    /\ requests = [t \in Threads |-> 0]
    /\ last_writer = 0

\* Nothing tracked, ranked, swept, pre-warmed or synthesized yet.
NoTrack ==
    [pair |-> "none", before |-> NoPopularity, read |-> FALSE, saved |-> FALSE]

NoTop == [limit |-> 0, routes |-> << >>, read |-> FALSE]

\* No matrix object.
NoMatrix == [kind |-> "absent", timestamp |-> 0, travel_times |-> {}, station_count |-> 0]

NoSweep ==
    [before |-> [k \in StoredKeys |-> Absent], popularity_before |-> NoPopularity,
     matrix_before |-> NoMatrix,
     list_failed |-> {}, entry_failed |-> {}]

NoPrewarm ==
    [pc |-> "idle", variant |-> "none", todo |-> << >>, total |-> 0,
     log |-> << >>]

NoSynthResult == [kind |-> "none", routes |-> {}]

NoSynth ==
    [pc |-> "idle",
     query |-> [origin |-> "", destination |-> "", transport_modes |-> {},
                distance |-> 0, departure |-> [hour |-> 0, minute |-> 0],
                traffic |-> {}],
     result |-> NoSynthResult]

\* No ranker called, and no call of get_with_retries.
NoRanking ==
    [pc |-> "idle", ranker |-> "none", routes |-> << >>,
     preferences |-> << >>, ranked |-> << >>]

NoResponse == [kind |-> "none", status_code |-> 0]

\* No build of the travel-time matrix yet.
NoBuild == [stations_df |-> {}, available_types |-> {}, up |-> FALSE,
            before_kind |-> "absent", before_edges |-> {}, at |-> 0,
            built |-> FALSE]

\* No sweep under way.
NoSweeper == [pc |-> "idle", current_time |-> 0, file_key |-> "",
              cached_data |-> Absent, deleted |-> Absent]

NoRetries ==
    [pc |-> "idle", max_retries |-> 0, backoff_factor |-> 0, retry |-> 0,
     attempts |-> << >>, waits |-> << >>, result |-> NoResponse]

InitNoAux ==
    /\ last_track = NoTrack
    /\ last_top = NoTop
    /\ last_sweep = NoSweep
    /\ prewarm = NoPrewarm
    /\ synth = NoSynth
    /\ ranking = NoRanking
    /\ retries = NoRetries
    /\ matrix = NoMatrix
    /\ sweeper = NoSweeper
    /\ last_build = NoBuild

Init ==
    /\ InitCache
    /\ InitNoKeys
    /\ InitNoPlan
    /\ InitNoThreads
    /\ InitNoAux

\* The clock advances.
Tick ==
    /\ \E t \in Instants :
        /\ t > now
        /\ now' = t
    /\ last_op' = "tick"
    /\ last_get' = NoGet
    /\ last_set' = NoSet
    /\ last_plan' = NoPlan
    /\ last_sweep' = NoSweep
    /\ UNCHANGED <<memory_cache, memory_cache_expiry, s3_objects, last_put>>
    /\ UNCHANGED <<keyVars, threadVars, popularity>>
    /\ UNCHANGED <<last_track, last_top, prewarm, libVars>>

\* put (cache_route_result, cache_route_with_time, cache_api_response): the
\* entry with timestamp = now goes to the durable tier, then to the in-process
\* tier.
Put(k, p, up) ==
    \E cache_entry \in {CacheEntry(now, p)} :
    \E s \in {SetMemoryCache(memory_cache, memory_cache_expiry, k, cache_entry,
                              TtlOf(k), now)} :
       /\ s3_objects' = SaveJsonToDataLake(s3_objects, k, cache_entry, up)
       /\ memory_cache' = s.cache
       /\ memory_cache_expiry' = s.expiry
       /\ last_put' = [key |-> k, done |-> TRUE, timestamp |-> now,
                       payload |-> p, saved |-> up,
                       at_capacity |->
                           /\ k \notin DOMAIN memory_cache
                           /\ Cardinality(DOMAIN memory_cache) = MemoryCacheLimit]
       /\ last_op' = "put"
       /\ last_get' = NoGet
       /\ last_set' = SetInfo(k, s)
       /\ last_plan' = NoPlan
       /\ last_sweep' = NoSweep
       /\ UNCHANGED <<now, keyVars, threadVars, popularity>>
       /\ UNCHANGED <<last_track, last_top, prewarm, libVars>>

Get(k, up) ==
    \E g \in {GetCached(memory_cache, memory_cache_expiry, s3_objects, k, now, up)} :
       /\ memory_cache' = g.cache
       /\ memory_cache_expiry' = g.expiry
       /\ last_get' = [key |-> k, outcome |-> g.outcome,
                       source |-> g.source, timestamp |-> g.timestamp,
                       payload |-> g.payload, durable_read |-> g.durable_read,
                       up |-> up,
                       in_memory_before |->
                           GetFromMemoryCache(memory_cache, memory_cache_expiry,
                                              k, now).found]
       /\ last_op' = "get"
       /\ last_set' = SetInfo(k, g.set)
       /\ last_plan' = NoPlan
       /\ UNCHANGED <<now, s3_objects, last_put, keyVars, auxVars, threadVars, popularity>>

cache_route_result ==
    \E k \in RouteKeys, p \in Payloads, up \in BOOLEAN : Put(k, p, up)

cache_route_with_time ==
    \E k \in RouteKeys, p \in Payloads, up \in BOOLEAN : Put(k, p, up)

cache_api_response ==
    \E k \in ApiKeys, p \in Payloads, up \in BOOLEAN : Put(k, p, up)

get_cached_route ==
    \E k \in RouteKeys, up \in BOOLEAN : Get(k, up)

get_cached_route_with_time ==
    \E k \in RouteKeys, up \in BOOLEAN : Get(k, up)

get_cached_api_response ==
    \E k \in ApiKeys, up \in BOOLEAN : Get(k, up)

Next ==
    \/ Tick
    \/ cache_route_result
    \/ cache_route_with_time
    \/ cache_api_response
    \/ get_cached_route
    \/ get_cached_route_with_time
    \/ get_cached_api_response

Spec == Init /\ [][Next]_vars

(***************************************************************************)
(* Properties of the two-tier store, checked under Spec.                   *)
(***************************************************************************)

\* C1: a get never returns the payload of an entry whose TTL has elapsed: when
\* a get has just returned a payload, now - timestamp < ttl_minutes holds for
\* the entry it came from, whichever tier served it.
C1_NeverServesExpired ==
    (last_op = "get" /\ last_get.outcome = "hit")
        => now - last_get.timestamp < TtlOf(last_get.key)

\* C2: a put followed by a get of the same key strictly before
\* timestamp + ttl_minutes is a hit that returns the stored payload (the store
\* answering both the put's write and the get's read), also when the put found
\* the in-process tier at capacity.
C2_PutThenGet ==
    ( /\ last_op = "get"
      /\ last_put.done
      /\ last_put.key = last_get.key
      /\ last_put.saved
      /\ last_get.up
      /\ now < last_put.timestamp + TtlOf(last_put.key) )
        => /\ last_get.outcome = "hit"
           /\ last_get.payload = last_put.payload
           /\ last_get.timestamp = last_put.timestamp

C2_Witness ==
    /\ last_op = "get"
    /\ last_put.done
    /\ last_put.key = last_get.key
    /\ last_put.saved
    /\ last_put.at_capacity
    /\ last_get.up
    /\ now = last_put.timestamp + 9
    /\ TtlOf(last_put.key) = 10
    /\ last_get.outcome = "hit"
    /\ last_get.payload = last_put.payload

\* C5: a get reads the durable tier only after the in-process tier missed, and
\* after a get served from the durable tier the key is held, unexpired, by the
\* in-process tier (so the next get of the key needs no durable read).
C5_PromotedIsInMemory ==
    /\ (last_op = "get" /\ last_get.durable_read) => ~last_get.in_memory_before
    /\ (last_op = "get" /\ last_get.outcome = "hit" /\ last_get.source = "durable")
           => GetFromMemoryCache(memory_cache, memory_cache_expiry,
                                 last_get.key, now).found

CalcOutcomes == {"routes", "no_routes", "error"}

\* The popularity object of a first request: {'timestamp': ..., 'routes': {}}.
FreshPopularity(t) ==
    [kind |-> "object", has_routes |-> TRUE, timestamp |-> t, routes |-> << >>]

\* Counts the pair twice.
CountPairTwice(routes, pair, t) ==
    LET present == IF pair \in RecordKeys(routes) THEN routes
                   ELSE Append(routes, [key |-> pair, count |-> 0,
                                        last_requested |-> t])
    IN [i \in DOMAIN present |->
           IF present[i].key = pair
           THEN [present[i] EXCEPT !.count = @ + 2, !.last_requested = t]
           ELSE present[i]]

\* track_popular_routes, the update of popularity_data['routes']: a record
\* with count 0 is added for a pair that has none, then the pair's count goes
\* up by one and its last_requested becomes now.
CountPair(routes, pair, t) ==
    LET present == IF pair \in RecordKeys(routes) THEN routes
                   ELSE Append(routes, [key |-> pair, count |-> 0,
                                        last_requested |-> t])
    IN [i \in DOMAIN present |->
           IF present[i].key = pair
           THEN [present[i] EXCEPT !.count = @ + 1, !.last_requested = t]
           ELSE present[i]]

\* The object track_popular_routes saves.
Tracked(popularity_data, pair, t) ==
    [popularity_data EXCEPT !.routes = CountPair(@, pair, t), !.timestamp = t]

\* track_popular_routes without the "if not popularity_data" default.
TrackWithoutDefault(pop, pair, t, up_read, up_write) ==
    IF up_read /\ pop.kind = "object" /\ pop.has_routes
    THEN [raised |-> FALSE,
          popularity |-> IF up_write THEN Tracked(pop, pair, t) ELSE pop]
    ELSE [raised |-> TRUE, popularity |-> pop]

\* track_popular_routes: read the object (None when the read fails), start
\* from an empty one when there is none, count the pair, save.  An object
\* without 'routes' raises KeyError before anything is saved.
TrackPopularRoutes(pop, pair, t, up_read, up_write) ==
    LET popularity_data ==
            IF up_read /\ pop.kind = "object" THEN pop ELSE FreshPopularity(t)
    IN IF ~popularity_data.has_routes
       THEN [raised |-> TRUE, popularity |-> pop]
       ELSE [raised |-> FALSE,
             popularity |->
                 IF up_write THEN Tracked(popularity_data, pair, t) ELSE pop]

\* Caches whatever the synthesis yields.
CachesAnything(calc) == TRUE

\* if routes and "Error" not in routes and "No routes found" not in routes
\* (plan_routes_cached: if routes, and an exception skips the caching).
IsCacheable(calc) == calc = "routes"

\* Runs the synthesis whatever the lookup answers.
SynthesizerCallsEager(outcome) == 1

\* Calls of _calculate_routes_with_time in one request: the request returns
\* before it on a hit (and when the lookup raises).
SynthesizerCalls(outcome) == IF outcome = "miss" THEN 1 ELSE 0

PlanOutcome(result, payload, source, pop, mc, me, objects, set, put, computed) ==
    [result |-> result, payload |-> payload, source |-> source,
     popularity |-> pop, cache |-> mc, expiry |-> me, objects |-> objects,
     set |-> set, put |-> put, computed |-> computed]

\* plan_routes_cached_with_time for the query with key k and pair
\* "origin|destination"; calc and p are what the synthesis yields for it.
\* result is "hit" (cached routes returned), the synthesis outcome, or "raise"
\* (an exception leaves the call: track_popular_routes and the cache lookup
\* run outside the try block).
PlanRoutesCachedWithTime(pop, mc, me, objects, k, pair, calc, p, t, up_tr, up_tw, up_get, up_put) ==
    LET tr == TrackPopularRoutes(pop, pair, t, up_tr, up_tw)
        g == GetCached(mc, me, objects, k, t, up_get)
        routes == IF calc = "routes" THEN p ELSE 0
        cache_entry == CacheEntry(t, routes)
        s == SetMemoryCache(g.cache, g.expiry, k, cache_entry,
                            routes_ttl_minutes, t)
        computed == SynthesizerCalls(g.outcome)
    IN IF tr.raised
       THEN PlanOutcome("raise", 0, "none", tr.popularity, mc, me, objects,
                        NotSet(mc, me), FALSE, 0)
       ELSE IF g.outcome = "raise"
       THEN PlanOutcome("raise", 0, g.source, tr.popularity, g.cache, g.expiry,
                        objects, g.set, FALSE, computed)
       ELSE IF g.outcome = "hit"
       THEN PlanOutcome("hit", g.payload, g.source, tr.popularity, g.cache,
                        g.expiry, objects, g.set, FALSE, computed)
       ELSE IF IsCacheable(calc)
       THEN PlanOutcome(calc, routes, "none", tr.popularity, s.cache, s.expiry,
                        SaveJsonToDataLake(objects, k, cache_entry, up_put),
                        s, TRUE, computed)
       ELSE PlanOutcome(calc, routes, "none", tr.popularity, g.cache, g.expiry,
                        objects, g.set, FALSE, computed)

\* One request, the store answering each of its four calls or not.
PlanRequest(up_track_read, up_track_write, up_get, up_put) ==
    \E k \in RouteKeys, pair \in RequestPairs, calc \in CalcOutcomes,
       p \in Payloads :
        /\ CountOf(popularity, pair) < MaxCount
        /\ \E o \in {PlanRoutesCachedWithTime(popularity, memory_cache,
                     memory_cache_expiry, s3_objects, k, pair, calc, p, now,
                     up_track_read, up_track_write, up_get, up_put)} :
           /\ popularity' = o.popularity
           /\ memory_cache' = o.cache
           /\ memory_cache_expiry' = o.expiry
           /\ s3_objects' = o.objects
           /\ last_plan' = [result |-> o.result, payload |-> o.payload,
                            calc |-> calc,
                            calc_payload |-> IF calc = "routes" THEN p ELSE 0,
                            source |-> o.source,
                            key |-> k, computed |-> o.computed,
                            wrote |-> o.put,
                            down |-> ~(up_track_read \/ up_track_write
                                         \/ up_get \/ up_put)]
           /\ last_op' = "plan"
           /\ last_get' = NoGet
           /\ last_set' = SetInfo(k, o.set)
           /\ last_put' = IF o.put
                          THEN [key |-> k, done |-> TRUE, timestamp |-> now,
                                payload |-> IF calc = "routes" THEN p ELSE 0,
                                saved |-> up_put,
                                at_capacity |->
                                    /\ k \notin DOMAIN memory_cache
                                    /\ Cardinality(DOMAIN memory_cache)
                                           = MemoryCacheLimit]
                          ELSE last_put
           /\ UNCHANGED <<now, keyVars, auxVars, threadVars>>

plan_routes_cached_with_time ==
    \E up_track_read \in BOOLEAN, up_track_write \in BOOLEAN,
       up_get \in BOOLEAN, up_put \in BOOLEAN :
        PlanRequest(up_track_read, up_track_write, up_get, up_put)

NextPlan ==
    \/ Tick
    \/ plan_routes_cached_with_time
    \/ cache_route_with_time
    \/ get_cached_route_with_time
    \/ get_cached_api_response

SpecPlan == Init /\ [][NextPlan]_vars

\* Objects another writer may have left in the durable tier at instant t:
\* bytes that are no JSON, an entry without 'timestamp', an entry without its
\* payload field.
MalformedObjects(t) ==
    { [kind |-> "garbage", has_timestamp |-> FALSE, timestamp |-> 0,
       has_payload |-> FALSE, payload |-> 0],
      [kind |-> "object", has_timestamp |-> FALSE, timestamp |-> 0,
       has_payload |-> TRUE, payload |-> 1],
      [kind |-> "object", has_timestamp |-> TRUE, timestamp |-> t,
       has_payload |-> FALSE, payload |-> 0] }

\* A popularity object that is no JSON, or has no 'routes'.
MalformedPopularities ==
    { [kind |-> "garbage", has_routes |-> FALSE, timestamp |-> 0,
       routes |-> << >>],
      [kind |-> "object", has_routes |-> FALSE, timestamp |-> 0,
       routes |-> << >>] }

\* A malformed object appears under a cache key.
malformed_entry ==
    /\ \E k \in Keys, o \in MalformedObjects(now) :
           s3_objects' = [s3_objects EXCEPT ![k] = o]
    /\ last_op' = "foreign"
    /\ last_get' = NoGet
    /\ last_set' = NoSet
    /\ last_plan' = NoPlan
    /\ UNCHANGED <<now, memory_cache, memory_cache_expiry, last_put, keyVars, auxVars,
                   threadVars, popularity>>

\* A malformed popularity object appears.
malformed_popularity ==
    /\ popularity' \in MalformedPopularities
    /\ last_op' = "foreign"
    /\ last_get' = NoGet
    /\ last_set' = NoSet
    /\ last_plan' = NoPlan
    /\ UNCHANGED <<cacheVars, last_put, keyVars, auxVars, threadVars>>

\* The store is available and the requests come within one instant: only the
\* shape of the stored objects is at stake.
NextMalformed ==
    \/ PlanRequest(TRUE, TRUE, TRUE, TRUE)
    \/ \E k \in RouteKeys : Get(k, TRUE)
    \/ \E k \in ApiKeys : Get(k, TRUE)
    \/ malformed_entry
    \/ malformed_popularity

SpecMalformed == Init /\ [][NextMalformed]_vars

\* C7: with the durable tier unavailable, a get raises nothing and returns a
\* payload only when the in-process tier holds the entry (the durable read
\* counts as a miss); a route request then raises nothing either, and when it
\* computes routes it returns them although the durable write failed.
C7_UnavailableIsMiss ==
    /\ (last_op = "get" /\ ~last_get.up) =>
           /\ last_get.outcome \in {"hit", "miss"}
           /\ last_get.outcome = "hit" <=> last_get.in_memory_before
           /\ last_get.outcome = "hit" => last_get.source = "memory"
    /\ (last_op = "plan" /\ last_plan.down) =>
           /\ last_plan.result # "raise"
           /\ last_plan.result = "hit" => last_plan.source = "memory"
           /\ last_plan.result # "hit" =>
                  /\ last_plan.result = last_plan.calc
                  /\ last_plan.payload = last_plan.calc_payload

C7_Witness ==
    /\ last_op = "plan"
    /\ last_plan.down
    /\ last_plan.result = "routes"
    /\ last_plan.payload = last_plan.calc_payload
    /\ s3_objects["route"].kind = "absent"
    /\ popularity.kind = "absent"

\* C11: neither tier holds, under a key of the routes category, an entry whose
\* payload is not a route result (an Error result, a "No routes found"
\* result, an empty result): a request whose synthesis fails stores nothing.
C11_OnlyRoutesAreCached ==
    \A k \in RouteKeys :
        /\ s3_objects[k].kind = "object" => s3_objects[k].payload \in Payloads
        /\ k \in DOMAIN memory_cache => memory_cache[k].payload \in Payloads

C11_Witness ==
    /\ last_op = "plan"
    /\ last_plan.calc = "error"
    /\ last_plan.result = "error"
    /\ last_plan.computed = 1
    /\ ~last_plan.wrote
    /\ s3_objects[last_plan.key].kind = "absent"
    /\ last_plan.key \notin DOMAIN memory_cache

\* C12 (as stated): every request that misses writes its result to the cache.
C12_EveryMissWrites ==
    (last_op = "plan" /\ last_plan.result \notin {"hit", "raise"})
        => last_plan.wrote

\* C12: a request that hits returns without running the synthesis and without
\* a put; a request that misses runs the synthesis once and returns its
\* result, and it puts that result (timestamp now) exactly when the result is
\* a route result: an Error or "No routes found" result is returned unwritten.
C12_LookupBeforeCompute ==
    (last_op = "plan" /\ last_plan.result # "raise") =>
        /\ last_plan.result = "hit" =>
               /\ last_plan.computed = 0
               /\ ~last_plan.wrote
               /\ last_plan.source \in {"memory", "durable"}
        /\ last_plan.result # "hit" =>
               /\ last_plan.computed = 1
               /\ last_plan.result = last_plan.calc
               /\ last_plan.payload = last_plan.calc_payload
               /\ last_plan.wrote <=> last_plan.calc = "routes"
               /\ last_plan.wrote =>
                      /\ last_put.key = last_plan.key
                      /\ last_put.payload = last_plan.payload
                      /\ last_put.timestamp = now
                      /\ last_put.saved =>
                             s3_objects[last_plan.key]
                                 = CacheEntry(now, last_plan.payload)

C12_Witness ==
    /\ last_op = "plan"
    /\ last_plan.result = "routes"
    /\ last_plan.computed = 1
    /\ last_plan.wrote
    /\ last_put.saved
    /\ s3_objects[last_plan.key] = CacheEntry(now, last_plan.payload)

\* C8: a durable object that cannot be parsed or lacks a field is a miss: no
\* get and no route request lets an exception out.
C8_MalformedIsMiss ==
    /\ last_op = "get" => last_get.outcome # "raise"
    /\ last_op = "plan" => last_plan.result # "raise"

(***************************************************************************)
(* Concurrent requests.  Each thread runs plan_routes_cached_with_time on  *)
(* the shared RouteCache; no lock guards the two dicts, so a thread may be *)
(* preempted between any two of their operations.  One action per dict or  *)
(* store operation; an exception raised in the lookup leaves the request    *)
(* ("raise"), one raised in cache_route_with_time is caught by the try      *)
(* block of plan_routes_cached_with_time, which returns an "Error" dict.    *)
(***************************************************************************)
Goto(t, label, loc) ==
    /\ pc' = [pc EXCEPT ![t] = label]
    /\ local' = [local EXCEPT ![t] = loc]

\* The request of thread t ends: result and payload go to the caller.
Return(t, result, payload, failed) ==
    Goto(t, "idle",
         [IdleLocal EXCEPT !.key = local[t].key, !.calc = local[t].calc,
                           !.p = local[t].p, !.missed = local[t].missed,
                           !.written = local[t].written,
                           !.result = result, !.payload = payload,
                           !.failed = failed])

\* An operation on the dicts raises (KeyError, RuntimeError, ValueError).
MemoryCallFails(t) ==
    IF local[t].mode = "put"
    THEN Return(t, "error", 0, TRUE)
    ELSE Return(t, "raise", 0, TRUE)

\* _set_memory_cache returns: cache_route_with_time ends and the computed
\* routes are returned, or the promoted entry's routes are.
SetDone(t) ==
    IF local[t].mode = "put"
    THEN Return(t, "routes", local[t].p, FALSE)
    ELSE Return(t, "hit", local[t].data.payload, FALSE)

\* What the threads may find at instant 0: nothing, or the entry a
\* cache_api_response or a cache_route_with_time has just stored.
Preloads == {"none"} \cup Keys

InitThreads ==
    /\ now = 0
    /\ \E preloaded \in Preloads :
        /\ memory_cache = [k \in Keys \cap {preloaded} |-> CacheEntry(0, 1)]
        /\ memory_cache_expiry =
               IF preloaded \in Keys
               THEN <<[key |-> preloaded, expiry |-> TtlOf(preloaded)]>>
               ELSE << >>
        /\ s3_objects = [k \in Keys |->
               IF k = preloaded THEN CacheEntry(0, 1) ELSE Absent]
    /\ last_op = "init"
    /\ last_get = NoGet
    /\ last_put = NoPut
    /\ last_set = NoSet
    /\ InitNoKeys
    /\ InitNoPlan
    /\ InitNoThreads
    /\ InitNoAux

\* plan_routes_cached_with_time is called.
start_request(t) ==
    /\ pc[t] = "idle"
    /\ requests[t] < MaxRequests
    /\ requests' = [requests EXCEPT ![t] = @ + 1]
    /\ \E k \in RouteKeys, calc \in CalcOutcomes, p \in Payloads :
        Goto(t, "track_read",
             [IdleLocal EXCEPT !.key = k, !.calc = calc,
                               !.p = IF calc = "routes" THEN p ELSE 0,
                               !.mode = "get"])
    /\ UNCHANGED <<cacheVars, histVars, keyVars, auxVars, planVars, last_writer>>

\* track_popular_routes: read_json_from_data_lake, default to a fresh object.
track_read(t) ==
    /\ pc[t] = "track_read"
    /\ LET popularity_data ==
               IF popularity.kind = "object" THEN popularity
               ELSE FreshPopularity(now)
       IN IF popularity_data.has_routes
          THEN Goto(t, "track_write",
                    [local[t] EXCEPT !.popularity_data = popularity_data])
          ELSE Return(t, "raise", 0, FALSE)
    /\ UNCHANGED <<cacheVars, histVars, keyVars, auxVars, planVars, requests,
                   last_writer>>

\* track_popular_routes: count the pair in the object read, save it.
track_write(t) ==
    /\ pc[t] = "track_write"
    /\ \E pair \in RequestPairs :
        popularity' = Tracked(local[t].popularity_data, pair, now)
    /\ Goto(t, "g_check", local[t])
    /\ UNCHANGED <<cacheVars, histVars, keyVars, auxVars, last_plan, requests,
                   last_writer>>

\* _get_from_memory_cache: key in memory_cache and key in memory_cache_expiry.
get_check(t) ==
    /\ pc[t] = "g_check"
    /\ IF /\ local[t].key \in DOMAIN memory_cache
          /\ local[t].key \in ExpiryKeys(memory_cache_expiry)
       THEN Goto(t, "g_compare", local[t])
       ELSE Goto(t, "d_read", local[t])
    /\ UNCHANGED <<cacheVars, histVars, keyVars, auxVars, planVars, requests,
                   last_writer>>

\* _get_from_memory_cache: datetime.now() < self.memory_cache_expiry[key].
get_compare(t) ==
    /\ pc[t] = "g_compare"
    /\ IF local[t].key \notin ExpiryKeys(memory_cache_expiry)
       THEN MemoryCallFails(t)
       ELSE IF now < ExpiryOf(memory_cache_expiry, local[t].key)
            THEN Goto(t, "g_return", local[t])
            ELSE Goto(t, "g_del_item", local[t])
    /\ UNCHANGED <<cacheVars, histVars, keyVars, auxVars, planVars, requests,
                   last_writer>>

\* _get_from_memory_cache: return self.memory_cache[key]; the caller returns
\* cached['routes'].
get_return(t) ==
    /\ pc[t] = "g_return"
    /\ IF local[t].key \notin DOMAIN memory_cache
       THEN MemoryCallFails(t)
       ELSE Return(t, "hit", memory_cache[local[t].key].payload, FALSE)
    /\ UNCHANGED <<cacheVars, histVars, keyVars, auxVars, planVars, requests,
                   last_writer>>

\* _get_from_memory_cache: del self.memory_cache[key].
get_delete_item(t) ==
    /\ pc[t] = "g_del_item"
    /\ IF local[t].key \notin DOMAIN memory_cache
       THEN MemoryCallFails(t) /\ UNCHANGED memory_cache
       ELSE /\ memory_cache' = DelItem(memory_cache, local[t].key)
            /\ Goto(t, "g_del_expiry", local[t])
    /\ UNCHANGED <<now, memory_cache_expiry, s3_objects, histVars, keyVars, auxVars,
                   planVars, requests, last_writer>>

\* _get_from_memory_cache: del self.memory_cache_expiry[key].
get_delete_expiry(t) ==
    /\ pc[t] = "g_del_expiry"
    /\ IF local[t].key \notin ExpiryKeys(memory_cache_expiry)
       THEN MemoryCallFails(t) /\ UNCHANGED memory_cache_expiry
       ELSE /\ memory_cache_expiry' = DelExpiry(memory_cache_expiry, local[t].key)
            /\ Goto(t, "d_read", local[t])
    /\ UNCHANGED <<now, memory_cache, s3_objects, histVars, keyVars, auxVars,
                   planVars, requests, last_writer>>

\* get_cached_route_with_time: read the durable entry; a valid one is
\* promoted, otherwise the request computes (a miss) and, unless the
\* synthesis has routes to cache, returns its outcome.
durable_read(t) ==
    /\ pc[t] = "d_read"
    /\ LET cached_data == ReadJsonFromDataLake(s3_objects, local[t].key, TRUE)
       IN IF /\ cached_data.kind = "object"
             /\ IsCacheValid(cached_data.timestamp, routes_ttl_minutes, now)
          THEN Goto(t, "s_item", [local[t] EXCEPT !.data = cached_data,
                                                  !.mode = "promote"])
          ELSE IF local[t].calc = "routes"
               THEN Goto(t, "w_save", [local[t] EXCEPT !.missed = TRUE])
               ELSE /\ pc' = [pc EXCEPT ![t] = "idle"]
                    /\ local' = [local EXCEPT ![t] =
                           [IdleLocal EXCEPT !.key = local[t].key,
                                             !.calc = local[t].calc,
                                             !.missed = TRUE,
                                             !.result = local[t].calc]]
    /\ UNCHANGED <<cacheVars, histVars, keyVars, auxVars, planVars, requests,
                   last_writer>>

\* cache_route_with_time: build the entry and save_json_to_data_lake.
save_entry(t) ==
    /\ pc[t] = "w_save"
    /\ LET cache_entry == CacheEntry(now, local[t].p)
       IN /\ s3_objects' = SaveJsonToDataLake(s3_objects, local[t].key,
                                              cache_entry, TRUE)
          /\ Goto(t, "s_item", [local[t] EXCEPT !.data = cache_entry,
                                                !.written = cache_entry,
                                                !.mode = "put"])
    /\ last_writer' = t
    /\ UNCHANGED <<now, memory_cache, memory_cache_expiry, histVars, keyVars, auxVars,
                   planVars, requests>>

\* _set_memory_cache: self.memory_cache[key] = data.
set_item(t) ==
    /\ pc[t] = "s_item"
    /\ memory_cache' = SetItem(memory_cache, local[t].key, local[t].data)
    /\ Goto(t, "s_expiry", local[t])
    /\ UNCHANGED <<now, memory_cache_expiry, s3_objects, histVars, keyVars, auxVars,
                   planVars, requests, last_writer>>

\* _set_memory_cache: self.memory_cache_expiry[key] = now + ttl.
set_expiry(t) ==
    /\ pc[t] = "s_expiry"
    /\ memory_cache_expiry' = SetExpiry(memory_cache_expiry, local[t].key,
                                        now + routes_ttl_minutes)
    /\ Goto(t, "s_len", local[t])
    /\ UNCHANGED <<now, memory_cache, s3_objects, histVars, keyVars, auxVars,
                   planVars, requests, last_writer>>

\* _set_memory_cache: if len(self.memory_cache) > cap.
set_len(t) ==
    /\ pc[t] = "s_len"
    /\ IF Cardinality(DOMAIN memory_cache) > MemoryCacheLimit
       THEN Goto(t, "s_min", local[t])
       ELSE SetDone(t)
    /\ UNCHANGED <<cacheVars, histVars, keyVars, auxVars, planVars, requests,
                   last_writer>>

\* _set_memory_cache: min() starts to iterate memory_cache_expiry.keys()
\* (ValueError on an empty dict).
set_min_begin(t) ==
    /\ pc[t] = "s_min"
    /\ IF Len(memory_cache_expiry) = 0
       THEN MemoryCallFails(t)
       ELSE Goto(t, "s_min_end",
                 [local[t] EXCEPT !.iter_len = Len(memory_cache_expiry)])
    /\ UNCHANGED <<cacheVars, histVars, keyVars, auxVars, planVars, requests,
                   last_writer>>

\* _set_memory_cache: min() ends; the iteration raises RuntimeError when the
\* dict changed size under it.
set_min_end(t) ==
    /\ pc[t] = "s_min_end"
    /\ IF Len(memory_cache_expiry) # local[t].iter_len
       THEN MemoryCallFails(t)
       ELSE Goto(t, "s_del_item",
                 [local[t] EXCEPT !.oldest_key = OldestKey(memory_cache_expiry)])
    /\ UNCHANGED <<cacheVars, histVars, keyVars, auxVars, planVars, requests,
                   last_writer>>

\* _set_memory_cache: del self.memory_cache[oldest_key].
set_delete_item(t) ==
    /\ pc[t] = "s_del_item"
    /\ IF local[t].oldest_key \notin DOMAIN memory_cache
       THEN MemoryCallFails(t) /\ UNCHANGED memory_cache
       ELSE /\ memory_cache' = DelItem(memory_cache, local[t].oldest_key)
            /\ Goto(t, "s_del_expiry", local[t])
    /\ UNCHANGED <<now, memory_cache_expiry, s3_objects, histVars, keyVars, auxVars,
                   planVars, requests, last_writer>>

\* _set_memory_cache: del self.memory_cache_expiry[oldest_key].
set_delete_expiry(t) ==
    /\ pc[t] = "s_del_expiry"
    /\ IF local[t].oldest_key \notin ExpiryKeys(memory_cache_expiry)
       THEN MemoryCallFails(t) /\ UNCHANGED memory_cache_expiry
       ELSE /\ memory_cache_expiry' =
                   DelExpiry(memory_cache_expiry, local[t].oldest_key)
            /\ SetDone(t)
    /\ UNCHANGED <<now, memory_cache, s3_objects, histVars, keyVars, auxVars,
                   planVars, requests, last_writer>>

NextThreads ==
    \/ Tick
    \/ \E t \in Threads : start_request(t)
    \/ \E t \in Threads : track_read(t)
    \/ \E t \in Threads : track_write(t)
    \/ \E t \in Threads : get_check(t)
    \/ \E t \in Threads : get_compare(t)
    \/ \E t \in Threads : get_return(t)
    \/ \E t \in Threads : get_delete_item(t)
    \/ \E t \in Threads : get_delete_expiry(t)
    \/ \E t \in Threads : durable_read(t)
    \/ \E t \in Threads : save_entry(t)
    \/ \E t \in Threads : set_item(t)
    \/ \E t \in Threads : set_expiry(t)
    \/ \E t \in Threads : set_len(t)
    \/ \E t \in Threads : set_min_begin(t)
    \/ \E t \in Threads : set_min_end(t)
    \/ \E t \in Threads : set_delete_item(t)
    \/ \E t \in Threads : set_delete_expiry(t)

SpecThreads == InitThreads /\ [][NextThreads]_vars

\* C9: under every interleaving of the threads' operations on the two dicts,
\* no call on the in-process tier fails, and, when no request is in
\* progress, the two dicts have the same keys and at most the cap of them.
C9_MemoryTierThreadSafe ==
    /\ \A t \in Threads : ~local[t].failed
    /\ (\A t \in Threads : pc[t] = "idle") =>
           /\ DOMAIN memory_cache = ExpiryKeys(memory_cache_expiry)
           /\ Cardinality(DOMAIN memory_cache) <= MemoryCacheLimit

\* C10: when the two threads have finished requests for the same key that
\* both missed and both computed routes, the durable tier holds for that key
\* exactly the entry of the thread that wrote last, and each caller got the
\* routes it computed.
C10_BothMissLastWriterWins ==
    ( /\ \A t \in Threads :
            /\ pc[t] = "idle"
            /\ local[t].missed
            /\ local[t].calc = "routes"
      /\ local[1].key = local[2].key )
        => /\ last_writer \in Threads
           /\ s3_objects[local[1].key] = local[last_writer].written
           /\ \A t \in Threads :
                  /\ local[t].result = "routes"
                  /\ local[t].payload = local[t].p

(***************************************************************************)
(* Key derivation.  A dict is a sequence of <<key, value>> pairs in          *)
(* insertion order, a list a sequence.  json.dumps(..., sort_keys=True)      *)
(* writes the pairs of every dict in key order and the items of a list in    *)
(* list order; md5 is taken as injective on the dumped text, so a key is     *)
(* the dumped content itself.                                                *)
(***************************************************************************)
\* Preference names and transport modes, in the order sorting puts them.
SortedPrefNames == <<"eco_pref", "time_pref">>
SortedModeNames == <<"Bus", "Metro", "RER">>

Range(f) == {f[i] : i \in DOMAIN f}

\* Every ordering of the elements of a set, as sequences.
Orderings(S) ==
    {f \in [1..Cardinality(S) -> S] : \A x \in S : \E i \in DOMAIN f : f[i] = x}

\* json.dumps(d, sort_keys=True) of a dict: its pairs by ascending key.
DumpSortedKeys(d) ==
    LET present == SelectSeq(SortedPrefNames,
                             LAMBDA n : \E i \in DOMAIN d : d[i][1] = n)
    IN [i \in DOMAIN present |->
           d[CHOOSE j \in DOMAIN d : d[j][1] = present[i]]]

\* sorted(transport_modes).
Sorted(modes) == SelectSeq(SortedModeNames, LAMBDA m : m \in Range(modes))

\* Rounds to the nearest quarter hour.
NearestMinutes(minutes) == ((minutes + 7) \div 15) * 15

\* rounded_minutes = (minutes // 15) * 15
RoundedMinutes(minutes) == (minutes \div 15) * 15

\* time_str: rounded_time.strftime("%H:%M"), or "now" without departure time.
TimeStr(departure_time) ==
    IF departure_time.present
    THEN [text |-> "HH:MM", hour |-> departure_time.hour,
          minute |-> RoundedMinutes(departure_time.minute)]
    ELSE [text |-> "now", hour |-> 0, minute |-> 0]

\* EnhancedCachedRoutePlanner._generate_cache_key_with_time
GenerateCacheKeyWithTime(q) ==
    [origin |-> q.origin,
     destination |-> q.destination,
     preferences |-> DumpSortedKeys(q.preferences),
     transport_modes |-> Sorted(q.transport_modes),
     departure_time |-> TimeStr(q.departure_time),
     date |-> q.date]

\* RouteCache._generate_cache_key on the cache_data of cache_route_result /
\* get_cached_route: the mode list is dumped in the caller's order.
GenerateCacheKey(q) ==
    [origin |-> q.origin,
     destination |-> q.destination,
     preferences |-> DumpSortedKeys(q.preferences),
     transport_modes |-> q.transport_modes]

\* The queries drawn: two preference weights in either insertion order, a
\* mode list in any order, a departure time around the quarter-hour
\* boundaries or none, and the request date.
PrefDicts == Orderings({<<"time_pref", 10>>, <<"eco_pref", 2>>})
ModeLists == Orderings({"Metro"}) \cup Orderings({"Metro", "RER"})
Hours == {8, 17}
Minutes == {3, 11, 14, 15, 20}
DepartureTimes ==
    {[present |-> FALSE, hour |-> 0, minute |-> 0]}
        \cup [present : {TRUE}, hour : Hours, minute : Minutes]
Dates == {1, 2}
Queries ==
    [origin : {"La Defense"}, destination : {"Chatelet"},
     preferences : PrefDicts, transport_modes : ModeLists,
     departure_time : DepartureTimes, date : Dates]

InitKeys ==
    /\ InitCache
    /\ InitNoPlan
    /\ InitNoThreads
    /\ InitNoAux
    /\ query1 \in Queries
    /\ query2 \in Queries
    /\ timed_keys = << >>
    /\ plain_keys = << >>

generate_cache_key_with_time ==
    /\ timed_keys = << >>
    /\ timed_keys' = <<GenerateCacheKeyWithTime(query1),
                       GenerateCacheKeyWithTime(query2)>>
    /\ UNCHANGED <<cacheVars, histVars, planVars, threadVars, auxVars, query1, query2, plain_keys>>

generate_cache_key ==
    /\ plain_keys = << >>
    /\ plain_keys' = <<GenerateCacheKey(query1), GenerateCacheKey(query2)>>
    /\ UNCHANGED <<cacheVars, histVars, planVars, threadVars, auxVars, query1, query2, timed_keys>>

NextKeys ==
    \/ generate_cache_key_with_time
    \/ generate_cache_key

SpecKeys == InitKeys /\ [][NextKeys]_vars

\* The dict a sequence of pairs stands for.
AsDict(d) == Range(d)

\* Same origin, destination, preference values, set of modes, departure time
\* and date: the two queries differ at most in the order of the mode list and
\* in the insertion order of the preference fields.
LogicallyIdentical(q1, q2) ==
    /\ q1.origin = q2.origin
    /\ q1.destination = q2.destination
    /\ AsDict(q1.preferences) = AsDict(q2.preferences)
    /\ Range(q1.transport_modes) = Range(q2.transport_modes)
    /\ q1.departure_time = q2.departure_time
    /\ q1.date = q2.date

\* Identical but, possibly, for the departure time.
IdenticalButDeparture(q1, q2) ==
    [q1 EXCEPT !.departure_time = q2.departure_time] = q2

\* Both times floor to the same quarter hour, or both are absent.
SameBucket(d1, d2) ==
    IF d1.present /\ d2.present
    THEN d1.hour = d2.hour /\ d1.minute \div 15 = d2.minute \div 15
    ELSE ~d1.present /\ ~d2.present

\* C3: two logically identical queries, differing only in the order of the
\* mode list or of the preference fields, get the same key from both key
\* derivations used for the routes category.
C3_SameQuerySameKey ==
    LogicallyIdentical(query1, query2) =>
        /\ timed_keys # << >> => timed_keys[1] = timed_keys[2]
        /\ plain_keys # << >> => plain_keys[1] = plain_keys[2]

NoRecord == [key |-> "none", count |-> 0, last_requested |-> 0]

RecordOf(pop, pair) ==
    IF pair \in RecordKeys(pop.routes)
    THEN pop.routes[CHOOSE i \in DOMAIN pop.routes : pop.routes[i].key = pair]
    ELSE NoRecord

\* track_popular_routes(origin, destination), whole.
track_popular_routes ==
    \E pair \in PopularPairs, up_read \in BOOLEAN, up_write \in BOOLEAN :
        LET tr == TrackPopularRoutes(popularity, pair, now, up_read, up_write)
        IN /\ CountOf(popularity, pair) < MaxCount
           /\ popularity' = tr.popularity
           /\ last_track' = [pair |-> pair, before |-> popularity,
                             read |-> up_read, saved |-> up_write]
           /\ last_op' = "track"
           /\ last_get' = NoGet
           /\ last_set' = NoSet
           /\ last_plan' = NoPlan
           /\ last_top' = NoTop
           /\ last_sweep' = NoSweep
           /\ UNCHANGED <<cacheVars, last_put, keyVars, threadVars, prewarm, libVars>>

\* list.sort(key=count, reverse=True) is stable: records of equal count keep
\* the order they have in the dict, which is insertion order.
RECURSIVE SortByCountDesc(_)
SortByCountDesc(routes) ==
    IF routes = << >> THEN << >>
    ELSE LET first == CHOOSE i \in DOMAIN routes :
                          /\ \A j \in DOMAIN routes : routes[j].count <= routes[i].count
                          /\ \A j \in 1..(i - 1) : routes[j].count < routes[i].count
             rest == [j \in 1..(Len(routes) - 1) |->
                         IF j < first THEN routes[j] ELSE routes[j + 1]]
         IN <<routes[first]>> \o SortByCountDesc(rest)

\* get_popular_routes(limit): [] when popularity.json cannot be read, else
\* the first 'limit' records of the sorted list.
GetPopularRoutes(pop, limit, up) ==
    IF ~(up /\ pop.kind = "object") THEN << >>
    ELSE LET routes == SortByCountDesc(pop.routes)
         IN SubSeq(routes, 1, IF limit < Len(routes) THEN limit ELSE Len(routes))

\* The limits get_popular_routes is called with.
Limits == 1..MaxLimit

get_popular_routes ==
    \E limit \in Limits, up \in BOOLEAN :
        /\ last_top' = [limit |-> limit, read |-> up,
                        routes |-> GetPopularRoutes(popularity, limit, up)]
        /\ last_op' = "top"
        /\ last_get' = NoGet
        /\ last_set' = NoSet
        /\ last_plan' = NoPlan
        /\ last_track' = NoTrack
        /\ last_sweep' = NoSweep
        /\ UNCHANGED <<cacheVars, last_put, keyVars, popularity, threadVars>>
        /\ UNCHANGED <<prewarm, libVars>>


\* RouteCache.cache_prefixes: the categories that hold objects here, and the
\* keys under each prefix in the order S3 lists them.
\* The prefixes of cache_prefixes under which src/ stores objects ('stations'
\* and 'schedules' have no writer).
CachePrefixes == {"routes", "api_responses", "popular_routes", "travel_times"}

MatrixKey == "matrix_latest"

PopularityKey == "popularity"

KeysUnder(cache_type) ==
    IF cache_type = "routes" THEN <<"route", "plainAB", "plainBA">>
    ELSE IF cache_type = "api_responses" THEN <<"api", "api2">>
    ELSE IF cache_type = "travel_times" THEN <<MatrixKey>>
    ELSE <<PopularityKey>>

Exists(objects, pop, mx, k) ==
    IF k = PopularityKey THEN pop.kind # "absent"
    ELSE IF k = MatrixKey THEN mx.kind # "absent"
    ELSE objects[k].kind # "absent"

\* list_files_in_data_lake: one list_objects_v2 call, so the first page of the
\* keys under the prefix; [] when the call raises.
ListFilesInDataLake(objects, pop, mx, cache_type, up) ==
    IF ~up THEN << >>
    ELSE LET files == SelectSeq(KeysUnder(cache_type),
                                LAMBDA k : Exists(objects, pop, mx, k))
         IN SubSeq(files, 1,
                   IF ListPageSize < Len(files) THEN ListPageSize ELSE Len(files))

\* getattr(self.config, f"{cache_type}_ttl_minutes", 60)
TtlOfType(cache_type) ==
    IF cache_type = "routes" THEN routes_ttl_minutes
    ELSE IF cache_type = "api_responses" THEN api_responses_ttl_minutes
    ELSE IF cache_type = "popular_routes" THEN popular_routes_ttl_minutes
    ELSE DefaultTtlMinutes

\* cleanup_expired_cache: current_time > cache_time + ttl.
IsExpired(cache_timestamp, ttl_minutes, current_time) ==
    current_time > cache_timestamp + ttl_minutes

\* The keys the sweep examines: listed under a prefix whose listing did not
\* fail, and neither the read nor the delete of the entry failed.
Examined(objects, pop, mx, list_failed, entry_failed) ==
    LET Files(c) == ListFilesInDataLake(objects, pop, mx, c, c \notin list_failed)
        listed == UNION { {Files(c)[i] : i \in DOMAIN Files(c)} : c \in CachePrefixes }
    IN listed \ entry_failed

TypeOfKey(k) ==
    IF k \in AllRouteKeys THEN "routes"
    ELSE IF k \in AllApiKeys THEN "api_responses"
    ELSE IF k = MatrixKey THEN "travel_times" ELSE "popular_routes"

\* cleanup_expired_cache, whole: for each prefix, list, read each file, and
\* delete the file when it has a timestamp and is expired.  A failing listing
\* skips the prefix, a failing read or delete skips the file.
cleanup_expired_cache ==
    \E list_failed \in SUBSET CachePrefixes,
       entry_failed \in SUBSET (StoredKeys \cup {PopularityKey, MatrixKey}) :
        /\ Cardinality(list_failed) + Cardinality(entry_failed) <= MaxFailures
        /\ LET examined == Examined(s3_objects, popularity, matrix, list_failed, entry_failed)
           IN /\ s3_objects' =
                     [k \in DOMAIN s3_objects |->
                         IF /\ k \in examined
                            /\ s3_objects[k].kind = "object"
                            /\ s3_objects[k].has_timestamp
                            /\ IsExpired(s3_objects[k].timestamp,
                                         TtlOfType(TypeOfKey(k)), now)
                         THEN Absent ELSE s3_objects[k]]
              /\ popularity' =
                     IF /\ PopularityKey \in examined
                        /\ popularity.kind = "object"
                        /\ IsExpired(popularity.timestamp,
                                     TtlOfType("popular_routes"), now)
                     THEN NoPopularity ELSE popularity
              /\ matrix' =
                     IF /\ MatrixKey \in examined
                        /\ matrix.kind = "object"
                        /\ IsExpired(matrix.timestamp,
                                     TtlOfType("travel_times"), now)
                     THEN NoMatrix ELSE matrix
              /\ last_sweep' = [before |-> s3_objects,
                                popularity_before |-> popularity,
                                matrix_before |-> matrix,
                                list_failed |-> list_failed,
                                entry_failed |-> entry_failed]
              /\ last_op' = "sweep"
              /\ last_get' = NoGet
              /\ last_set' = NoSet
              /\ last_plan' = NoPlan
              /\ UNCHANGED <<now, memory_cache, memory_cache_expiry, last_put>>
              /\ last_track' = NoTrack
              /\ last_top' = NoTop
              /\ UNCHANGED <<keyVars, threadVars, prewarm>>
              /\ last_build' = NoBuild
              /\ UNCHANGED <<synth, ranking, retries, sweeper>>

\* The writers of the entries the sweep examines.
cache_routes ==
    \E k \in RouteKeys : Put(k, 1, TRUE)

cache_api_responses ==
    \E k \in AllApiKeys : Put(k, 1, TRUE)

\* The tracker with its readers and the hourly maintenance.
NextPopularity ==
    \/ Tick
    \/ track_popular_routes
    \/ get_popular_routes
    \/ cleanup_expired_cache

SpecPopularity == Init /\ [][NextPopularity]_vars

\* The sweep with the writers of the entries.
NextSweep ==
    \/ Tick
    \/ cleanup_expired_cache
    \/ cache_routes
    \/ cache_api_responses

SpecSweep == Init /\ [][NextSweep]_vars


\* C13: with the durable tier available (the read and the save succeed) and
\* no concurrent call, track_popular_routes raises the count of the pair
\* 'origin|destination' by exactly one (a pair without record gets one with
\* count 1), sets its last_requested to now, and leaves the record of every
\* other pair, 'destination|origin' included, as it was.
C13_RecordCountsOnce ==
    (last_op = "track" /\ last_track.read /\ last_track.saved) =>
        /\ CountOf(popularity, last_track.pair) =
               CountOf(last_track.before, last_track.pair) + 1
        /\ RecordOf(popularity, last_track.pair).last_requested = now
        /\ RecordKeys(popularity.routes) =
               RecordKeys(last_track.before.routes) \cup {last_track.pair}
        /\ \A other \in PopularPairs \ {last_track.pair} :
               RecordOf(popularity, other) = RecordOf(last_track.before, other)

\* The pair "A|B" goes from count 1 to count 2 at a later instant while
\* "B|A" has a record of its own.
C13_Witness ==
    /\ last_op = "track"
    /\ last_track.read
    /\ last_track.saved
    /\ last_track.pair = "A|B"
    /\ CountOf(last_track.before, "A|B") = 1
    /\ CountOf(last_track.before, "B|A") = 1
    /\ RecordOf(last_track.before, "A|B").last_requested < now
    /\ CountOf(popularity, "A|B") = 2
    /\ CountOf(popularity, "B|A") = 1

\* C14: no step lowers the count of a popularity record or removes a record
\* from the popularity object.
C14_CountsNeverDecrease ==
    [][\A pair \in PopularPairs :
          CountOf(popularity', pair) >= CountOf(popularity, pair)]_vars

\* C15: get_popular_routes(n) returns min(n, number of records) records in
\* non-increasing count order, no omitted record has a higher count than a
\* returned one, and of two records with equal count the one requested more
\* recently comes first.
C15_TopNOrder ==
    (last_op = "top" /\ last_top.read /\ popularity.kind = "object") =>
        LET routes == last_top.routes
            n == Len(popularity.routes)
        IN /\ Len(routes) = (IF last_top.limit < n THEN last_top.limit ELSE n)
           /\ \A i \in DOMAIN routes : RecordOf(popularity, routes[i].key) = routes[i]
           /\ \A i, j \in DOMAIN routes : i < j =>
                 /\ routes[i].key # routes[j].key
                 /\ routes[i].count >= routes[j].count
                 /\ routes[i].count = routes[j].count =>
                        routes[i].last_requested >= routes[j].last_requested
           /\ \A pair \in RecordKeys(popularity.routes) \ RecordKeys(routes) :
                 \A i \in DOMAIN routes :
                     /\ CountOf(popularity, pair) <= routes[i].count
                     /\ CountOf(popularity, pair) = routes[i].count =>
                            RecordOf(popularity, pair).last_requested
                                <= routes[i].last_requested


\* C16: when cleanup_expired_cache completes with no concurrent writer, no
\* entry older than the TTL of its category remains under the category's
\* prefix, no entry that was within its TTL has been deleted, and a failure on
\* one entry or one category leaves the others swept: the entries the failure
\* did not touch are as after a sweep without failure.
C16_SweepRemovesExpired ==
    last_op = "sweep" =>
        \A k \in StoredKeys :
            /\ (/\ k \notin last_sweep.entry_failed
                /\ TypeOfKey(k) \notin last_sweep.list_failed
                /\ s3_objects[k].kind = "object"
                /\ s3_objects[k].has_timestamp)
               => ~(now > s3_objects[k].timestamp + TtlOfType(TypeOfKey(k)))
            /\ s3_objects[k] # last_sweep.before[k] =>
                   /\ s3_objects[k] = Absent
                   /\ now > last_sweep.before[k].timestamp + TtlOfType(TypeOfKey(k))


\* C17: a result pre-warming stored for a combination is found by the
\* dashboard's request for the same origin, destination, preferences and
\* modes: the key pre-warming stores under (RouteCache._generate_cache_key,
\* through cache_route_result) is the key the dashboard looks up
\* (_generate_cache_key_with_time, through get_cached_route_with_time).
C17_PrewarmedKeyIsLookedUp ==
    (plain_keys # << >> /\ timed_keys # << >>) => plain_keys[1] = timed_keys[1]


(***************************************************************************)
(* Pre-warming: RouteCache.pre_cache_popular_routes (the popular routes of *)
(* the tracker, default preferences and modes) and                         *)
(* PreCacheService.pre_cache_popular_combinations (a fixed list of         *)
(* combinations).  One step per loop iteration.                            *)
(***************************************************************************)

\* The key cache_route_result / get_cached_route derive for the pair with the
\* pre-warming's preferences and modes.
PlainKeyOf(pair) == IF pair = "A|B" THEN "plainAB" ELSE "plainBA"

\* get_popular_routes() is called with its default limit.
DefaultLimit == 10

\* The combinations of PreCacheService: the nested loops over stations,
\* destinations, mode combinations and profiles, here one per pair.
ServiceCombinations == <<"A|B", "B|A">>

\* What route_planner.plan_routes does: routes, an empty list, or an
\* exception.
PlannerOutcomes == {"routes", "no_routes", "raise"}

\* pre_cache_popular_routes: popular_routes = self.get_popular_routes().
pre_cache_popular_routes ==
    \E up \in BOOLEAN :
        LET popular_routes == GetPopularRoutes(popularity, DefaultLimit, up)
            todo == [i \in DOMAIN popular_routes |-> popular_routes[i].key]
        IN /\ prewarm.pc # "loop"
           /\ prewarm' = [pc |-> IF todo = << >> THEN "done" ELSE "loop",
                          variant |-> "popular", todo |-> todo,
                          total |-> Len(todo), log |-> << >>]
           /\ last_op' = "prewarm"
           /\ last_get' = NoGet
           /\ last_set' = NoSet
           /\ last_plan' = NoPlan
           /\ last_sweep' = NoSweep
           /\ UNCHANGED <<cacheVars, last_put, keyVars, popularity, threadVars>>
           /\ UNCHANGED <<last_track, last_top, libVars>>

\* pre_cache_popular_combinations: load_data, and return when it failed.
pre_cache_popular_combinations ==
    \E loaded \in BOOLEAN :
        /\ prewarm.pc # "loop"
        /\ \A pair \in PopularPairs : CountOf(popularity, pair) < MaxCount
        /\ prewarm' = IF loaded
                      THEN [pc |-> "loop", variant |-> "service",
                            todo |-> ServiceCombinations,
                            total |-> Len(ServiceCombinations), log |-> << >>]
                      ELSE [pc |-> "done", variant |-> "service",
                            todo |-> << >>, total |-> 0, log |-> << >>]
        /\ last_op' = "prewarm"
        /\ last_get' = NoGet
        /\ last_set' = NoSet
        /\ last_plan' = NoPlan
        /\ last_sweep' = NoSweep
        /\ UNCHANGED <<cacheVars, last_put, keyVars, popularity, threadVars>>
        /\ UNCHANGED <<last_track, last_top, libVars>>

\* CachedRoutePlanner.plan_routes_cached: track_popular_routes, the lookup,
\* then plan_routes inside the try block; a planner exception ("raise")
\* becomes the "Error" result.
PlanRoutesCached(pop, mc, me, objects, k, pair, planned, t, up_tr, up_tw, up_get, up_put) ==
    PlanRoutesCachedWithTime(pop, mc, me, objects, k, pair,
                             IF planned = "raise" THEN "error" ELSE planned,
                             1, t, up_tr, up_tw, up_get, up_put)

\* A loop that an exception of the planner leaves.
RemainingUnlessRaised(todo, entry) ==
    IF entry.raised THEN << >> ELSE Tail(todo)

\* The loop goes on with the next combination whatever the planner did: the
\* try block around the planner call catches and logs the exception.
Remaining(todo, entry) == Tail(todo)

\* What an iteration leaves when the lookup g of its combination raised (the
\* exception leaves the loop) or hit (continue).
LookupOnly(pair, g, pop, objects) ==
    [entry |-> [pair |-> pair, lookups |-> 1, hit |-> g.outcome = "hit",
                planner_calls |-> 0, raised |-> FALSE, wrote |-> FALSE],
     escaped |-> g.outcome = "raise", popularity |-> pop,
     cache |-> g.cache, expiry |-> g.expiry, objects |-> objects]

\* The body of the loop of pre_cache_popular_routes for one popular route,
\* g being what its get_cached_route did: on a miss plan_routes runs inside
\* the try block and routes, if any, go to cache_route_result (s being what
\* _set_memory_cache does then).
PopularBody(pop, objects, pair, planned, t, up_put, g, s) ==
    IF g.outcome # "miss" THEN LookupOnly(pair, g, pop, objects)
    ELSE IF planned = "routes"
    THEN [entry |-> [pair |-> pair, lookups |-> 1, hit |-> FALSE,
                     planner_calls |-> 1, raised |-> FALSE, wrote |-> TRUE],
          escaped |-> FALSE, popularity |-> pop,
          cache |-> s.cache, expiry |-> s.expiry,
          objects |-> SaveJsonToDataLake(objects, PlainKeyOf(pair),
                                         CacheEntry(t, 1), up_put)]
    ELSE [entry |-> [pair |-> pair, lookups |-> 1, hit |-> FALSE,
                     planner_calls |-> 1, raised |-> planned = "raise",
                     wrote |-> FALSE],
          escaped |-> FALSE, popularity |-> pop,
          cache |-> g.cache, expiry |-> g.expiry, objects |-> objects]

\* The body of the loops of pre_cache_popular_combinations for one
\* combination, g being what its get_cached_route did and o what
\* plan_routes_cached, called inside the try block after a miss, did.
ServiceBody(pop, objects, pair, planned, g, o) ==
    IF g.outcome # "miss" THEN LookupOnly(pair, g, pop, objects)
    ELSE [entry |-> [pair |-> pair, lookups |-> 2, hit |-> FALSE,
                     planner_calls |-> o.computed,
                     raised |-> o.computed = 1 /\ planned = "raise",
                     wrote |-> o.put],
          escaped |-> FALSE, popularity |-> o.popularity,
          cache |-> o.cache, expiry |-> o.expiry, objects |-> o.objects]

\* One iteration of the pre-warming loop.
pre_cache_iteration ==
    /\ prewarm.pc = "loop"
    /\ \E planned \in PlannerOutcomes, up_get \in BOOLEAN, up_put \in BOOLEAN,
          up_tr \in BOOLEAN :
       \E pair \in {Head(prewarm.todo)} :
       \E g \in {GetCached(memory_cache, memory_cache_expiry, s3_objects,
                           PlainKeyOf(pair), now, up_get)} :
       \E b \in {IF prewarm.variant = "popular"
                 THEN PopularBody(popularity, s3_objects, pair, planned, now,
                          up_put, g,
                          SetMemoryCache(g.cache, g.expiry, PlainKeyOf(pair),
                                         CacheEntry(now, 1),
                                         TtlOf(PlainKeyOf(pair)), now))
                 ELSE ServiceBody(popularity, s3_objects, pair, planned, g,
                          PlanRoutesCached(popularity, g.cache, g.expiry,
                                           s3_objects, PlainKeyOf(pair), pair,
                                           planned, now, up_tr, up_tr, up_get,
                                           up_put))} :
       \E rest \in {IF b.escaped THEN << >>
                    ELSE Remaining(prewarm.todo, b.entry)} :
           /\ prewarm' = [prewarm EXCEPT
                              !.todo = rest,
                              !.log = Append(@, b.entry),
                              !.pc = IF rest = << >> THEN "done" ELSE "loop"]
           /\ popularity' = b.popularity
           /\ memory_cache' = b.cache
           /\ memory_cache_expiry' = b.expiry
           /\ s3_objects' = b.objects
           /\ last_op' = "prewarm"
           /\ last_get' = NoGet
           /\ last_set' = NoSet
           /\ last_plan' = NoPlan
           /\ last_sweep' = NoSweep
           /\ UNCHANGED <<now, last_put, keyVars, threadVars>>
           /\ UNCHANGED <<last_track, last_top, libVars>>

\* The requests that fill the tracker between the pre-warming runs.
track_requests ==
    \E pair \in PopularPairs :
        /\ prewarm.pc # "loop"
        /\ CountOf(popularity, pair) < MaxCount
        /\ popularity' = TrackPopularRoutes(popularity, pair, now, TRUE, TRUE).popularity
        /\ last_op' = "track"
        /\ last_get' = NoGet
        /\ last_set' = NoSet
        /\ last_plan' = NoPlan
        /\ last_sweep' = NoSweep
        /\ UNCHANGED <<cacheVars, last_put, keyVars, threadVars>>
        /\ UNCHANGED <<last_track, last_top, prewarm, libVars>>

\* The pre-warming runs, one after the other, and the requests between them.
\* The clock stands still: expiry is the subject of the other specifications.
NextPrewarm ==
    \/ track_requests
    \/ pre_cache_popular_routes
    \/ pre_cache_popular_combinations
    \/ pre_cache_iteration

SpecPrewarm == Init /\ [][NextPrewarm]_vars

\* The loop is sequential code whose every call returns or raises: an
\* iteration that can run does run.
SpecPrewarmFair == SpecPrewarm /\ WF_vars(pre_cache_iteration)


\* What C18 says of every state of a pre-warming run: the combinations
\* examined and those left add up to the bounded list the run started with,
\* each examined combination was looked up before any planner call, the
\* planner ran at most once for it and only when the lookup missed, no
\* combination was examined twice, and a finished run examined them all, the
\* ones after a planner failure included.
PrewarmInvariant ==
    /\ prewarm.total <= Cardinality(PopularPairs)
    /\ prewarm.pc # "idle" => Len(prewarm.log) + Len(prewarm.todo) = prewarm.total
    /\ \A i \in DOMAIN prewarm.log :
           /\ prewarm.log[i].lookups >= 1
           /\ prewarm.log[i].planner_calls <= 1
           /\ prewarm.log[i].hit => prewarm.log[i].planner_calls = 0
           /\ prewarm.log[i].wrote => prewarm.log[i].planner_calls = 1
    /\ \A i, j \in DOMAIN prewarm.log :
           i # j => prewarm.log[i].pair # prewarm.log[j].pair
    /\ prewarm.pc = "done" => Len(prewarm.log) = prewarm.total

\* C18: pre-warming terminates after examining a bounded number of
\* combinations, looks each combination up before computing, calls the planner
\* only after a miss and at most once per combination, and goes on with the
\* remaining combinations after a planner failure.
C18_PrewarmTerminates ==
    /\ []PrewarmInvariant
    /\ (prewarm.pc = "loop") ~> (prewarm.pc = "done")

\* A finished run of two combinations: the planner raised for the first, and
\* the second was still looked up, computed and stored.
C18_Witness ==
    /\ prewarm.pc = "done"
    /\ Len(prewarm.log) = 2
    /\ prewarm.log[1].raised
    /\ prewarm.log[1].planner_calls = 1
    /\ ~prewarm.log[2].hit
    /\ prewarm.log[2].planner_calls = 1
    /\ prewarm.log[2].wrote
    /\ s3_objects[PlainKeyOf(prewarm.log[2].pair)].kind = "object"


(***************************************************************************)
(* Route synthesis: _calculate_routes_with_time, as a function of the      *)
(* query.  The result is the kind of the returned dict and the candidates  *)
(* it holds, each a mode with the key the candidate has in the dict.       *)
(***************************************************************************)
Stations == {"A", "B"}

\* The modes the synthesis knows, and a mode name it does not know.
TransitModes == {"Metro", "RER", "Bus", "Transilien"}
ModeNames == TransitModes \cup {"Walking", "Tram"}

\* Haversine distances between the stations' coordinates: around the walking
\* cutoff and the walking cap, the default distance, short bus rides and the
\* 8 km of La Defense - Chatelet.
Distances == {0, 69, DefaultDistance, WalkingCutoff, WalkingCutoff + 1, 509, 800}

\* departure_time: the hour and the minute of the clock time.
ClockTime(h, m) == [hour |-> h, minute |-> m]
MidDay == ClockTime(14, 0)
Departures ==
    {ClockTime(6, 59), ClockTime(7, 0), ClockTime(8, 0), ClockTime(8, 15),
     ClockTime(9, 0), ClockTime(9, 30), MidDay, ClockTime(16, 59),
     ClockTime(17, 0), ClockTime(19, 0), ClockTime(19, 30), ClockTime(20, 0)}

\* traffic_df: the rows of the live service status.
TrafficRow(type, status) == [transport_type |-> type, status |-> status]
TrafficTables ==
    SUBSET {TrafficRow("metro", "delayed"), TrafficRow("metro", "normal"),
            TrafficRow("rer", "delayed"), TrafficRow("bus", "delayed")}

\* The key of a mode's candidate in the routes dict.
RouteName(mode) ==
    IF mode = "Metro" THEN "Metro Line 1"
    ELSE IF mode = "RER" THEN "RER A"
    ELSE IF mode = "Bus" THEN "Bus 144"
    ELSE IF mode = "Transilien" THEN "Transilien L"
    ELSE "Walking"

Max(a, b) == IF a >= b THEN a ELSE b
Min(a, b) == IF a <= b THEN a ELSE b

\* base_time of a transit mode, in 1/200 of a minute:
\* max(8, min(25, distance_km * 2.5 + 5)) for the Metro, and so on.
BaseTime(mode, distance) ==
    IF mode = "Metro" THEN Max(1600, Min(5000, 5 * distance + 1000))
    ELSE IF mode = "RER" THEN Max(2000, Min(6000, 4 * distance + 1600))
    ELSE IF mode = "Bus" THEN Max(2400, Min(8000, 8 * distance + 2000))
    ELSE Max(3000, Min(7000, 6 * distance + 2400))

\* The rush-hour factors, in hundredths, from departure_datetime.hour.
\* A Metro without rush hours.
MetroCongestionFlat(hour) == 100

MetroCongestion(hour) ==
    IF 7 <= hour /\ hour <= 9 THEN 130
    ELSE IF 17 <= hour /\ hour <= 19 THEN 140
    ELSE 100

RerCongestion(hour) ==
    IF (7 <= hour /\ hour <= 9) \/ (17 <= hour /\ hour <= 19) THEN 120 ELSE 100

\* A bus as slowed down in the morning as in the evening.
BusCongestionEveningAllDay(hour) ==
    IF 7 <= hour /\ hour <= 9 THEN 160
    ELSE IF 17 <= hour /\ hour <= 19 THEN 160
    ELSE 110

BusCongestion(hour) ==
    IF 7 <= hour /\ hour <= 9 THEN 180
    ELSE IF 17 <= hour /\ hour <= 19 THEN 160
    ELSE 110

TransilienCongestion == 110

\* not metro_issues.empty and any(metro_issues.get('status', '') != 'normal')
Issues(traffic_df, type) ==
    \E row \in traffic_df : row.transport_type = type /\ row.status # "normal"

\* The Metro's factor: congestion_factor *= 1.2 on a disruption.  The RER and
\* the Bus generators take traffic_df and never read it.
CongestionFactor(mode, hour, traffic_df) ==
    IF mode = "Metro"
    THEN IF Issues(traffic_df, "metro")
         THEN (MetroCongestion(hour) * 120) \div 100
         ELSE MetroCongestion(hour)
    ELSE IF mode = "RER" THEN RerCongestion(hour)
    ELSE IF mode = "Bus" THEN BusCongestion(hour)
    ELSE TransilienCongestion

\* travel_time = int(base_time * congestion_factor)
TravelTime(mode, distance, hour, traffic_df) ==
    (BaseTime(mode, distance) * CongestionFactor(mode, hour, traffic_df)) \div 20000

\* emission_factors, grams per km; cost_factors, in cents; the
\* accessibility_score of each generator, in hundredths.
EmissionFactor(mode) ==
    IF mode = "Metro" THEN 4
    ELSE IF mode = "RER" THEN 6
    ELSE IF mode = "Bus" THEN 70
    ELSE IF mode = "Transilien" THEN 8
    ELSE 0

CostFactor(mode) ==
    IF mode = "Walking" THEN 0 ELSE IF mode = "Transilien" THEN 365 ELSE 190

AccessibilityScore(mode) ==
    IF mode = "Metro" THEN 95
    ELSE IF mode = "RER" THEN 90
    ELSE IF mode = "Bus" THEN 75
    ELSE IF mode = "Transilien" THEN 85
    ELSE 100

\* The entry a transit generator returns under the mode's key.
TransitRoute(mode, distance, departure, traffic_df) ==
    [mode |-> mode, name |-> RouteName(mode),
     congestion_factor |-> CongestionFactor(mode, departure.hour, traffic_df),
     total_time |-> TravelTime(mode, distance, departure.hour, traffic_df),
     num_transfers |-> 0,
     total_emissions |-> (distance * EmissionFactor(mode)) \div 100,
     accessibility_score |-> AccessibilityScore(mode),
     cost_euros |-> CostFactor(mode)]

\* _generate_walking_route_with_time: int(distance_km * 12), and no route
\* when that is over 60 minutes.
WalkingTime(distance) == (distance * WalkingMinutesPerKm) \div 100

WalkingRoute(distance) ==
    IF WalkingTime(distance) > WalkingCap THEN {}
    ELSE {[mode |-> "Walking", name |-> RouteName("Walking"),
           congestion_factor |-> 100,
           total_time |-> WalkingTime(distance),
           num_transfers |-> 0,
           total_emissions |-> 0,
           accessibility_score |-> AccessibilityScore("Walking"),
           cost_euros |-> CostFactor("Walking")]}

\* A synthesis that tries a walk whatever the distance.
WalkingTriedAlways(transport_modes, distance) == "Walking" \in transport_modes

\* "Walking" in transport_modes and distance_km <= 4.0
WalkingTried(transport_modes, distance) ==
    "Walking" \in transport_modes /\ distance <= WalkingCutoff

\* A validation that lets every query through.
NothingRejected(q) == FALSE

\* The two input validations, each returning the "Error" dict.
Rejected(q) == q.origin = q.destination \/ q.transport_modes = {}

\* The candidates: one per requested transit mode (routes.update under the
\* mode's own key), and the walk when it is tried and not over the cap.
Candidates(q) ==
    { TransitRoute(m, q.distance, q.departure, q.traffic) :
          m \in q.transport_modes \cap TransitModes }
        \cup (IF WalkingTried(q.transport_modes, q.distance)
              THEN WalkingRoute(q.distance) ELSE {})

\* The returned dict as the set of its entries: _apply_route_preferences
\* reorders the entries and neither adds nor drops one.
CalculateRoutesWithTime(q) ==
    IF Rejected(q) THEN [kind |-> "Error", routes |-> {}]
    ELSE IF Candidates(q) # {} THEN [kind |-> "routes", routes |-> Candidates(q)]
    ELSE [kind |-> "No routes found", routes |-> {}]

\* Queries with every set of mode names, at midday with no status row.
SynthQueries ==
    [origin : Stations, destination : Stations,
     transport_modes : SUBSET ModeNames, distance : Distances,
     departure : {MidDay}, traffic : {{}}]

\* Queries of one pair of stations at every departure and status table.
CongestionModes ==
    {{"Metro"}, {"RER"}, {"Bus"}, {"Metro", "Walking"}, {"Metro", "RER", "Bus"}}

CongestionQueries ==
    [origin : {"A"}, destination : {"B"},
     transport_modes : CongestionModes, distance : Distances,
     departure : Departures, traffic : TrafficTables]

InitQuery(queries) ==
    /\ InitCache
    /\ InitNoKeys
    /\ InitNoPlan
    /\ InitNoThreads
    /\ last_track = NoTrack
    /\ last_top = NoTop
    /\ last_sweep = NoSweep
    /\ prewarm = NoPrewarm
    /\ ranking = NoRanking
    /\ retries = NoRetries
    /\ matrix = NoMatrix
    /\ sweeper = NoSweeper
    /\ last_build = NoBuild
    /\ \E q \in queries :
           synth = [pc |-> "idle", query |-> q, result |-> NoSynthResult]

InitSynth == InitQuery(SynthQueries)

InitCongestion == InitQuery(CongestionQueries)

calculate_routes_with_time ==
    /\ synth.pc = "idle"
    /\ synth' = [synth EXCEPT !.pc = "done",
                              !.result = CalculateRoutesWithTime(synth.query)]
    /\ UNCHANGED <<cacheVars, histVars, keyVars, planVars, threadVars>>
    /\ UNCHANGED <<last_track, last_top, last_sweep, prewarm, ranking, retries, matrix, sweeper, last_build>>

SpecSynth == InitSynth /\ [][calculate_routes_with_time]_vars

SpecCongestion == InitCongestion /\ [][calculate_routes_with_time]_vars

\* C19: the synthesis returns a terminal non-route result (the "Error" dict
\* or the "No routes found" dict, with no route in it) when origin =
\* destination, when no mode is requested, or when no requested mode yields a
\* leg (only unsupported names, or only Walking beyond the cutoff); in every
\* other case it returns a non-empty route result.
C19_TerminalOrRoutes ==
    synth.pc = "done" =>
        LET q == synth.query
            r == synth.result
            no_leg == /\ q.transport_modes \cap TransitModes = {}
                      /\ ~("Walking" \in q.transport_modes
                             /\ q.distance <= WalkingCutoff)
        IN IF q.origin = q.destination \/ q.transport_modes = {} \/ no_leg
           THEN r.kind \in {"Error", "No routes found"} /\ r.routes = {}
           ELSE r.kind = "routes" /\ r.routes # {}

\* Only Walking and an unsupported name requested, beyond the cutoff: the
\* "No routes found" result.
C19_Witness ==
    /\ synth.pc = "done"
    /\ synth.query.origin # synth.query.destination
    /\ synth.query.transport_modes = {"Walking", "Tram"}
    /\ synth.query.distance = WalkingCutoff + 1
    /\ synth.result.kind = "No routes found"

\* C20: for a valid query the result holds exactly one candidate for each
\* requested mode among Metro, RER, Bus and Transilien, a Walking candidate
\* iff Walking is requested, the distance is at most 4 km and the walk takes
\* at most 60 minutes, and no candidate for any other mode.
C20_OneCandidatePerMode ==
    (/\ synth.pc = "done"
     /\ synth.query.origin # synth.query.destination
     /\ synth.query.transport_modes # {}) =>
        LET q == synth.query
            routes == synth.result.routes
            walk == /\ "Walking" \in q.transport_modes
                    /\ q.distance <= 400
                    /\ (q.distance * 12) \div 100 <= 60
        IN /\ \A m \in q.transport_modes \cap TransitModes :
                  Cardinality({c \in routes : c.mode = m}) = 1
           /\ Cardinality({c \in routes : c.mode = "Walking"}) = (IF walk THEN 1 ELSE 0)
           /\ \A c \in routes : c.mode \in q.transport_modes \cap (TransitModes \cup {"Walking"})
           /\ Cardinality({c.name : c \in routes}) = Cardinality(routes)

\* Metro and Walking requested just beyond the cutoff: the Metro candidate
\* alone, no walk and no candidate of the modes not requested.
C20_Witness ==
    /\ synth.pc = "done"
    /\ synth.query.origin # synth.query.destination
    /\ synth.query.transport_modes = {"Metro", "Walking"}
    /\ synth.query.distance = WalkingCutoff + 1
    /\ synth.result.kind = "routes"
    /\ {c.mode : c \in synth.result.routes} = {"Metro"}


\* C21: with normal service status, the congestion multiplier follows the
\* departure clock time: Metro 1.3 within 07:00-09:00, 1.4 within
\* 17:00-19:00 and 1.0 otherwise; RER 1.2 within either window and 1.0
\* otherwise; Bus 1.8 in the morning window, 1.6 in the evening window and 1.1
\* otherwise; a departure after the end of a window (09:30, 19:30) gets the
\* off-peak value.
C21_MultiplierByClockTime ==
    (/\ synth.pc = "done"
     /\ \A row \in synth.query.traffic : row.status = "normal") =>
        LET t == 60 * synth.query.departure.hour + synth.query.departure.minute
            morning == 7 * 60 <= t /\ t <= 9 * 60
            evening == 17 * 60 <= t /\ t <= 19 * 60
        IN \A c \in synth.result.routes :
               /\ c.mode = "Metro" =>
                      c.congestion_factor =
                          (IF morning THEN 130 ELSE IF evening THEN 140 ELSE 100)
               /\ c.mode = "RER" =>
                      c.congestion_factor = (IF morning \/ evening THEN 120 ELSE 100)
               /\ c.mode = "Bus" =>
                      c.congestion_factor =
                          (IF morning THEN 180 ELSE IF evening THEN 160 ELSE 110)

\* C22: for each of Metro, RER and Bus, a non-normal status row of the mode
\* makes the leg's multiplier the time-of-day multiplier times 1.2; with an
\* empty status table or only normal rows the multiplier is the time-of-day
\* multiplier, and a result is produced in either case.
C22_StatusPenaltyEveryMode ==
    synth.pc = "done" =>
        LET hour == synth.query.departure.hour
            traffic_df == synth.query.traffic
            time_of_day(mode) ==
                IF mode = "Metro" THEN MetroCongestion(hour)
                ELSE IF mode = "RER" THEN RerCongestion(hour)
                ELSE BusCongestion(hour)
            type(mode) ==
                IF mode = "Metro" THEN "metro"
                ELSE IF mode = "RER" THEN "rer" ELSE "bus"
            penalty(mode) ==
                IF \E row \in traffic_df :
                       row.transport_type = type(mode) /\ row.status # "normal"
                THEN 120 ELSE 100
        IN /\ synth.result.kind = "routes"
           /\ \A c \in synth.result.routes :
                  c.mode \in {"Metro", "RER", "Bus"} =>
                      c.congestion_factor * 100 = time_of_day(c.mode) * penalty(c.mode)

\* C23 as stated: for the Bus and every distance, the whole-minute duration
\* of a departure at 08:00 is at least 1.6 times the whole-minute duration of
\* a departure at 14:00.
C23_BusMorningRatio ==
    (synth.pc = "done" /\ synth.query.departure = ClockTime(8, 0)) =>
        \A c \in synth.result.routes :
            c.mode = "Bus" =>
                10 * c.total_time >=
                    16 * TravelTime("Bus", synth.query.distance, MidDay.hour,
                                    synth.query.traffic)

\* C23: for the Bus and every distance, the whole-minute duration of a
\* departure at 08:00 is more than 1.6 times the whole-minute duration of a
\* departure at 14:00 less one minute: the truncation to whole minutes can
\* take up to a minute from the 08:00 duration.
C23_BusMorningRatioWithinRounding ==
    (synth.pc = "done" /\ synth.query.departure = ClockTime(8, 0)) =>
        \A c \in synth.result.routes :
            c.mode = "Bus" =>
                10 * (c.total_time + 1) >
                    16 * TravelTime("Bus", synth.query.distance, MidDay.hour,
                                    synth.query.traffic)

\* A bus ride of 0.69 km: 22 minutes at 08:00 and 14 minutes at 14:00, and
\* 1.6 * 14 = 22.4.
C23_Witness ==
    /\ synth.pc = "done"
    /\ synth.query.departure = ClockTime(8, 0)
    /\ synth.query.distance = 69
    /\ \E c \in synth.result.routes :
           /\ c.mode = "Bus"
           /\ c.total_time = 22
           /\ TravelTime("Bus", 69, MidDay.hour, synth.query.traffic) = 14

\* C24 as stated: La Defense Grande Arche to Chatelet-Les Halles, modes
\* {Metro, Walking}, 8 km, departure 08:15: exactly one candidate, a Metro
\* candidate with multiplier 1.3, no Walking candidate, and not the "No routes
\* found" result.
C24_RushHourScenario ==
    (/\ synth.pc = "done"
     /\ synth.query.origin # synth.query.destination
     /\ synth.query.transport_modes = {"Metro", "Walking"}
     /\ synth.query.distance = 800
     /\ synth.query.departure = ClockTime(8, 15)) =>
        /\ synth.result.kind = "routes"
        /\ Cardinality(synth.result.routes) = 1
        /\ \A c \in synth.result.routes :
               c.mode = "Metro" /\ c.congestion_factor = 130

\* C24: the same query, when the service status has no non-normal Metro
\* row: exactly one candidate, a Metro candidate with multiplier 1.3, no
\* Walking candidate, and not the "No routes found" result.
C24_RushHourScenarioNormalStatus ==
    (/\ synth.pc = "done"
     /\ synth.query.origin # synth.query.destination
     /\ synth.query.transport_modes = {"Metro", "Walking"}
     /\ synth.query.distance = 800
     /\ synth.query.departure = ClockTime(8, 15)
     /\ \A row \in synth.query.traffic :
            row.transport_type = "metro" => row.status = "normal") =>
        /\ synth.result.kind = "routes"
        /\ Cardinality(synth.result.routes) = 1
        /\ \A c \in synth.result.routes :
               c.mode = "Metro" /\ c.congestion_factor = 130

\* The scenario with a normal Metro row and a delayed RER in the status
\* table: the Metro candidate alone, 25 * 1.3 = 32 minutes.
C24_Witness ==
    /\ synth.pc = "done"
    /\ synth.query.transport_modes = {"Metro", "Walking"}
    /\ synth.query.distance = 800
    /\ synth.query.departure = ClockTime(8, 15)
    /\ synth.query.traffic =
           {TrafficRow("metro", "normal"), TrafficRow("rer", "delayed")}
    /\ synth.result.kind = "routes"
    /\ {c.mode : c \in synth.result.routes} = {"Metro"}
    /\ \A c \in synth.result.routes :
           c.congestion_factor = 130 /\ c.total_time = 32


(***************************************************************************)
(* Ranking: EnhancedCachedRoutePlanner._apply_route_preferences over the   *)
(* routes dict and RealRoutePlanner.apply_preferences over the list of     *)
(* Route objects.  A candidate has its key (its position at insertion),    *)
(* minutes, transfers, grams, cents and an accessibility score in          *)
(* hundredths; weights are 0 or 1.  Scores are held as integers: the       *)
(* score times ScoreScale, a multiple of every divisor a candidate of the  *)
(* pool gives rise to (minutes 10 and 20, 1 to 3 legs, 1 to 100 grams,     *)
(* 190 cents).                                                             *)
(***************************************************************************)
ScoreScale == 5700

BaseRoute ==
    [name |-> 0, total_time |-> 20, num_transfers |-> 0, total_emissions |-> 50,
     accessibility_score |-> 100, cost_euros |-> 190]

\* Candidates that differ from BaseRoute in the emissions, in the transfers,
\* and a fast candidate with the lowest accessibility score.
RoutePool ==
    { [BaseRoute EXCEPT !.total_emissions = e] : e \in {0, 1, 10, 50, 100} }
        \cup { [BaseRoute EXCEPT !.num_transfers = n] : n \in {0, 1, 2} }
        \cup { [BaseRoute EXCEPT !.total_time = 10, !.accessibility_score = 0] }

\* The routes handed to a ranker, in insertion order, each under its own key.
RouteLists ==
    UNION { { [i \in 1..n |-> [list[i] EXCEPT !.name = i]] : list \in [1..n -> RoutePool] } :
                n \in 1..MaxRoutes }

NoPreference ==
    [time_pref |-> 0, transfer_pref |-> 0, eco_pref |-> 0, cost_pref |-> 0,
     accessibility_pref |-> 0, accessibility |-> FALSE]

\* The preference vectors: one weight at 1.0, every weight at 1.0, none; each
\* with and without the accessibility requirement of the dashboard.
PreferenceVectors ==
    LET weights == {NoPreference,
                    [NoPreference EXCEPT !.time_pref = 1],
                    [NoPreference EXCEPT !.transfer_pref = 1],
                    [NoPreference EXCEPT !.eco_pref = 1],
                    [NoPreference EXCEPT !.cost_pref = 1],
                    [NoPreference EXCEPT !.accessibility_pref = 1],
                    [NoPreference EXCEPT !.time_pref = 1, !.transfer_pref = 1,
                                         !.eco_pref = 1, !.cost_pref = 1,
                                         !.accessibility_pref = 1]}
    IN { [w EXCEPT !.accessibility = a] : w \in weights, a \in BOOLEAN }

\* calculate_route_score of _apply_route_preferences, times ScoreScale.
CalculateRouteScore(route_data, preferences) ==
    ((100 * ScoreScale) \div Max(1, route_data.total_time)) * preferences.time_pref
    + ((50 * ScoreScale) \div Max(1, route_data.num_transfers + 1)) * preferences.transfer_pref
    + ((1000 * ScoreScale) \div Max(1, route_data.total_emissions)) * preferences.eco_pref
    + ((1000 * ScoreScale) \div Max(10, route_data.cost_euros)) * preferences.cost_pref
    + ((route_data.accessibility_score * 20 * ScoreScale) \div 100)
          * preferences.accessibility_pref

\* route_score of RealRoutePlanner.apply_preferences, times ScoreScale.
RouteScore(route, preferences) ==
    (IF route.total_time > 0
     THEN ((100 * ScoreScale) \div route.total_time) * preferences.time_pref
     ELSE 0)
    + ((10 * ScoreScale) \div Max(1, route.num_transfers)) * preferences.transfer_pref
    + (IF route.total_emissions > 0
       THEN ((1000 * ScoreScale) \div route.total_emissions) * preferences.eco_pref
       ELSE 50 * ScoreScale * preferences.eco_pref)
    + (IF route.cost_euros > 0
       THEN ((1000 * ScoreScale) \div route.cost_euros) * preferences.cost_pref
       ELSE 0)
    + ((route.accessibility_score * 20 * ScoreScale) \div 100)
          * preferences.accessibility_pref

ScoreOf(ranker, route, preferences) ==
    IF ranker = "cached" THEN CalculateRouteScore(route, preferences)
    ELSE RouteScore(route, preferences)

\* A sort that puts the last of the equal scores first.
RECURSIVE SortedLastFirst(_)
SortedLastFirst(scored) ==
    IF scored = << >> THEN << >>
    ELSE LET first == CHOOSE i \in DOMAIN scored :
                          /\ \A j \in DOMAIN scored : scored[j].score <= scored[i].score
                          /\ \A j \in (i + 1)..Len(scored) : scored[j].score < scored[i].score
             rest == [j \in 1..(Len(scored) - 1) |->
                         IF j < first THEN scored[j] ELSE scored[j + 1]]
         IN <<scored[first]>> \o SortedLastFirst(rest)

\* sorted(..., key=score, reverse=True): descending, and stable, so that of
\* the entries with the highest score the first in the input comes first.
RECURSIVE SortedReverse(_)
SortedReverse(scored) ==
    IF scored = << >> THEN << >>
    ELSE LET first == CHOOSE i \in DOMAIN scored :
                          /\ \A j \in DOMAIN scored : scored[j].score <= scored[i].score
                          /\ \A j \in 1..(i - 1) : scored[j].score < scored[i].score
             rest == [j \in 1..(Len(scored) - 1) |->
                         IF j < first THEN scored[j] ELSE scored[j + 1]]
         IN <<scored[first]>> \o SortedReverse(rest)

\* The ranked routes of either ranker: no route is filtered out, whatever
\* preferences['accessibility'] is.
Ranked(ranker, routes, preferences) ==
    LET scored == [i \in DOMAIN routes |->
                      [route |-> routes[i],
                       score |-> ScoreOf(ranker, routes[i], preferences)]]
        sorted == SortedReverse(scored)
    IN [i \in DOMAIN sorted |-> sorted[i].route]

InitRank ==
    /\ InitCache
    /\ InitNoKeys
    /\ InitNoPlan
    /\ InitNoThreads
    /\ last_track = NoTrack
    /\ last_top = NoTop
    /\ last_sweep = NoSweep
    /\ prewarm = NoPrewarm
    /\ synth = NoSynth
    /\ retries = NoRetries
    /\ matrix = NoMatrix
    /\ sweeper = NoSweeper
    /\ last_build = NoBuild
    /\ \E routes \in RouteLists, preferences \in PreferenceVectors :
           ranking = [NoRanking EXCEPT !.routes = routes, !.preferences = preferences]

RankWith(ranker) ==
    /\ ranking.pc = "idle"
    /\ ranking' = [ranking EXCEPT
                       !.pc = "done",
                       !.ranker = ranker,
                       !.ranked = Ranked(ranker, ranking.routes, ranking.preferences)]
    /\ UNCHANGED <<cacheVars, histVars, keyVars, planVars, threadVars>>
    /\ UNCHANGED <<last_track, last_top, last_sweep, prewarm, synth, retries, matrix, sweeper, last_build>>

apply_route_preferences == RankWith("cached")

apply_preferences == RankWith("real")

NextRank ==
    \/ apply_route_preferences
    \/ apply_preferences

SpecRank == InitRank /\ [][NextRank]_vars

\* The two candidates of a ranking that are identical except for one field.
IdenticalExcept(routes, field) ==
    /\ Len(routes) = 2
    /\ routes[1][field] # routes[2][field]
    /\ \A f \in DOMAIN BaseRoute \ {"name", field} : routes[1][f] = routes[2][f]

OnlyWeight(preferences, pref) ==
    \A w \in DOMAIN NoPreference \ {"accessibility"} :
        preferences[w] = (IF w = pref THEN 1 ELSE 0)

\* C25: when the query has accessibility = true, no candidate in the returned
\* result has an accessibility score below the minimum (here: the score 0,
\* below every minimum above the lowest score); such a candidate is excluded
\* before scoring even if it ranks first on time.
C25_AccessibilityFilter ==
    (ranking.pc = "done" /\ ranking.preferences.accessibility) =>
        \A i \in DOMAIN ranking.ranked : ranking.ranked[i].accessibility_score > 0

\* C26: of two candidates identical except for the emissions, ranked with
\* eco_pref = 1.0 and every other weight 0, the one with the lower emissions
\* comes first (50 g before 100 g, zero before any emitting one), in both
\* rankers.
C26_LowerEmissionsFirst ==
    (/\ ranking.pc = "done"
     /\ OnlyWeight(ranking.preferences, "eco_pref")
     /\ IdenticalExcept(ranking.routes, "total_emissions")) =>
        /\ Len(ranking.ranked) = 2
        /\ ranking.ranked[1].total_emissions < ranking.ranked[2].total_emissions

\* C27: of two candidates identical except for the number of transfers,
\* ranked with transfer_pref = 1.0 and every other weight 0, the one with
\* fewer transfers (0 against 1 in particular) has the strictly higher score
\* and comes first.
C27_FewerTransfersFirst ==
    (/\ ranking.pc = "done"
     /\ OnlyWeight(ranking.preferences, "transfer_pref")
     /\ IdenticalExcept(ranking.routes, "num_transfers")) =>
        /\ Len(ranking.ranked) = 2
        /\ ranking.ranked[1].num_transfers < ranking.ranked[2].num_transfers
        /\ ScoreOf(ranking.ranker, ranking.ranked[1], ranking.preferences)
               > ScoreOf(ranking.ranker, ranking.ranked[2], ranking.preferences)

StatusCodes == {200, 399, 400, 404, 429, 499, 500, 503}

\* What requests.get yields: a response with its status code, or an
\* exception (a timeout, a refused connection).
Response(status_code) == [kind |-> "response", status_code |-> status_code]
RaisedException == [kind |-> "exception", status_code |-> 0]
Outcomes == {Response(status_code) : status_code \in StatusCodes} \cup {RaisedException}
ReturnedNone == [kind |-> "None", status_code |-> 0]

\* random.uniform(0, 1), in tenths.
Jitters == {0, 5, 9}

\* The calls: max_retries up to the default, three backoff factors.
RetryCalls ==
    [max_retries : 0..DefaultMaxRetries, backoff_factor : {1, DefaultBackoffFactor, 3}]

\* A helper that hands a 429 to the caller.
ReturnsAlso429(outcome) ==
    /\ outcome.kind = "response"
    /\ (outcome.status_code < 400 \/ outcome.status_code < 500)

\* The branches that return the response: status < 400, 404, and the else
\* branch (neither >= 500 nor 429).
Returns(outcome) ==
    /\ outcome.kind = "response"
    /\ IF outcome.status_code < 400 THEN TRUE
       ELSE IF outcome.status_code >= 500 THEN FALSE
       ELSE IF outcome.status_code = 429 THEN FALSE
       ELSE IF outcome.status_code = 404 THEN TRUE
       ELSE TRUE

\* backoff_factor ** retry
RECURSIVE Power(_, _)
Power(base, exponent) ==
    IF exponent = 0 THEN 1 ELSE base * Power(base, exponent - 1)

\* A backoff that starts at backoff_factor.
WaitTimeFromFactor(backoff_factor, retry, jitter) ==
    10 * Power(backoff_factor, retry + 1) + jitter

\* wait_time = (backoff_factor ** retry) + random.uniform(0, 1)
WaitTime(backoff_factor, retry, jitter) ==
    10 * Power(backoff_factor, retry) + jitter

InitRetries ==
    /\ InitCache
    /\ InitNoKeys
    /\ InitNoPlan
    /\ InitNoThreads
    /\ last_track = NoTrack
    /\ last_top = NoTop
    /\ last_sweep = NoSweep
    /\ prewarm = NoPrewarm
    /\ synth = NoSynth
    /\ ranking = NoRanking
    /\ matrix = NoMatrix
    /\ sweeper = NoSweeper
    /\ last_build = NoBuild
    /\ \E call \in RetryCalls :
           retries = [NoRetries EXCEPT !.pc = "loop",
                                       !.max_retries = call.max_retries,
                                       !.backoff_factor = call.backoff_factor]

\* One iteration of the loop: the GET; a returning branch returns the
\* response; otherwise the sleep, unless this was the last iteration.
get_attempt ==
    /\ retries.pc = "loop"
    /\ retries.retry < retries.max_retries
    /\ \E outcome \in Outcomes, jitter \in Jitters :
           retries' =
               IF Returns(outcome)
               THEN [retries EXCEPT !.pc = "returned",
                                    !.attempts = Append(@, outcome),
                                    !.result = outcome]
               ELSE [retries EXCEPT
                        !.attempts = Append(@, outcome),
                        !.retry = @ + 1,
                        !.waits =
                            IF retries.retry < retries.max_retries - 1
                            THEN Append(@, [after |-> retries.retry + 1,
                                            jitter |-> jitter,
                                            wait_time |->
                                                WaitTime(retries.backoff_factor,
                                                         retries.retry, jitter)])
                            ELSE @]
    /\ UNCHANGED <<cacheVars, histVars, keyVars, planVars, threadVars>>
    /\ UNCHANGED <<last_track, last_top, last_sweep, prewarm, synth, ranking, matrix, sweeper, last_build>>

\* The loop is over: return None.
return_none ==
    /\ retries.pc = "loop"
    /\ retries.retry >= retries.max_retries
    /\ retries' = [retries EXCEPT !.pc = "returned", !.result = ReturnedNone]
    /\ UNCHANGED <<cacheVars, histVars, keyVars, planVars, threadVars>>
    /\ UNCHANGED <<last_track, last_top, last_sweep, prewarm, synth, ranking, matrix, sweeper, last_build>>

NextRetries ==
    \/ get_attempt
    \/ return_none

SpecRetries == InitRetries /\ [][NextRetries]_vars

\* requests.get has a timeout, so every iteration ends; the sleeps are finite.
SpecRetriesFair == SpecRetries /\ WF_vars(NextRetries)

\* C29: get_with_retries returns the response at once, with no further
\* attempt, when the status is below 400, is 404 or is another 4xx except
\* 429; after a 5xx, a 429 or a raised exception it makes another attempt as
\* long as attempts remain.
C29_StatusPolicy ==
    \A i \in DOMAIN retries.attempts :
        LET outcome == retries.attempts[i]
            status == outcome.status_code
            final == /\ outcome.kind = "response"
                     /\ \/ status < 400
                        \/ status = 404
                        \/ (400 <= status /\ status < 500 /\ status # 429)
            again == \/ outcome.kind = "exception"
                     \/ outcome.kind = "response" /\ (status >= 500 \/ status = 429)
        IN /\ final =>
                 /\ i = Len(retries.attempts)
                 /\ retries.pc = "returned"
                 /\ retries.result = outcome
           /\ (again /\ i < retries.max_retries) =>
                 \/ i < Len(retries.attempts)
                 \/ /\ retries.pc = "loop"
                    /\ retries.retry = i
                    /\ ENABLED get_attempt

\* A 429, then a 503, then a 404 that is returned.
C29_Witness ==
    /\ retries.pc = "returned"
    /\ retries.max_retries = DefaultMaxRetries
    /\ retries.attempts = <<Response(429), Response(503), Response(404)>>
    /\ retries.result = Response(404)

\* The part of C30 that holds in every state, with the waits as stated:
\* backoff_factor^k between attempt k and attempt k + 1.
C30_WaitsAsStated ==
    /\ Len(retries.attempts) <= retries.max_retries
    /\ \A k \in DOMAIN retries.waits :
           /\ retries.waits[k].after = k
           /\ k < retries.max_retries
           /\ retries.waits[k].wait_time - 10 * Power(retries.backoff_factor, k) \in 0..9
    /\ Len(retries.waits) <= Len(retries.attempts)
    /\ retries.pc = "returned" =>
           IF \A i \in DOMAIN retries.attempts : ~Returns(retries.attempts[i])
           THEN /\ retries.result = ReturnedNone
                /\ Len(retries.attempts) = retries.max_retries
                /\ Len(retries.waits) = Max(0, retries.max_retries - 1)
           ELSE /\ retries.result = retries.attempts[Len(retries.attempts)]
                /\ Len(retries.waits) = Len(retries.attempts) - 1

\* C30 as stated: get_with_retries terminates after at most max_retries
\* attempts; between attempt k and attempt k + 1 it waits backoff_factor^k
\* plus a jitter in [0,1), and not after the last attempt; when every attempt
\* failed it returns None; no attempt follows a returned response.
C30_TerminatesWaitsAsStated ==
    /\ []C30_WaitsAsStated
    /\ [][retries.pc = "returned" => retries' = retries]_vars
    /\ <>(retries.pc = "returned")

\* The part of C30 that holds in every state, with the waits of the code:
\* backoff_factor^(k-1) between attempt k and attempt k + 1, the attempts
\* counted from 1.
C30_Waits ==
    /\ Len(retries.attempts) <= retries.max_retries
    /\ \A k \in DOMAIN retries.waits :
           /\ retries.waits[k].after = k
           /\ k < retries.max_retries
           /\ retries.waits[k].wait_time - 10 * Power(retries.backoff_factor, k - 1) \in 0..9
    /\ Len(retries.waits) <= Len(retries.attempts)
    /\ retries.pc = "returned" =>
           IF \A i \in DOMAIN retries.attempts : ~Returns(retries.attempts[i])
           THEN /\ retries.result = ReturnedNone
                /\ Len(retries.attempts) = retries.max_retries
                /\ Len(retries.waits) = Max(0, retries.max_retries - 1)
           ELSE /\ retries.result = retries.attempts[Len(retries.attempts)]
                /\ Len(retries.waits) = Len(retries.attempts) - 1

\* C30: get_with_retries terminates after at most max_retries attempts;
\* between attempt k and attempt k + 1 (k = 1, 2, ...) it waits
\* backoff_factor^(k-1) plus a jitter in [0,1), and not after the last
\* attempt; when every attempt failed it returns None; no attempt follows a
\* returned response.
C30_Terminates ==
    /\ []C30_Waits
    /\ [][retries.pc = "returned" => retries' = retries]_vars
    /\ <>(retries.pc = "returned")

\* Three failed attempts with the default backoff: waits of 1 and 2 seconds
\* (and the jitter), none after the third, and None returned.
C30_Witness ==
    /\ retries.pc = "returned"
    /\ retries.max_retries = DefaultMaxRetries
    /\ retries.backoff_factor = DefaultBackoffFactor
    /\ retries.attempts = <<Response(500), RaisedException, Response(429)>>
    /\ Len(retries.waits) = 2
    /\ retries.waits[1].wait_time = 10 + retries.waits[1].jitter
    /\ retries.waits[2].wait_time = 20 + retries.waits[2].jitter
    /\ retries.result = ReturnedNone


\* ---------------------------------------------------------------------------
\* The travel-time matrix (RouteCache.build_travel_time_matrix) and the
\* maintenance schedule that rebuilds and sweeps it.
\* ---------------------------------------------------------------------------

\* Rows of the station table: the name, and the position in metres along one
\* axis (the coordinate difference times 111000); valid is FALSE for a row
\* whose coordinates are not numbers.
StationRows ==
    { [name |-> "La Defense", position |-> 0, valid |-> TRUE],
      [name |-> "CNIT", position |-> 3500, valid |-> TRUE],
      [name |-> "Esplanade", position |-> 0, valid |-> FALSE],
      [name |-> "Nanterre", position |-> 9000, valid |-> TRUE] }

StationTables == SUBSET StationRows

\* schedules_df['transport_type'].unique(); {} is the empty schedule table.
ScheduleTypeSets == {{}, {"metro"}, {"rer"}, {"bus"}, {"metro", "rer"}}

\* Instants (minutes) of the maintenance loop: a matrix built at 0 is swept
\* 60 and 61 minutes later (around the 60 minute default TTL) and rebuilt
\* 720 minutes later.
MaintenanceInstants == {0, 60, 61, 720}

\* schedule.every(12).hours.do(self.build_travel_time_matrix)
BuildPeriodMinutes == 720

\* str.contains('La Défense|Défense|CNIT|Grande Arche|Esplanade', case=False)
HubNames == {"La Defense", "CNIT", "Esplanade"}

LaDefenseStations(stations_df) == {row \in stations_df : row.name \in HubNames}

\* ((lat2 - lat1)**2 + (lon2 - lon1)**2)**0.5 * 111000, in metres.
StationDistance(origin_station, dest_station) ==
    IF origin_station.position > dest_station.position
    THEN origin_station.position - dest_station.position
    ELSE dest_station.position - origin_station.position

\* max(floor, int(distance / speed * 60)), the speed in metres per hour.
MinutesAt(distance, speed, floor) == Max(floor, (distance * 60) \div speed)

\* _estimate_travel_time: 'metro' is tested first, then 'rer'/'rers', then any
\* other schedule data; walking without schedule data; 15 when the
\* computation raises.
EstimateTravelTime(origin_station, dest_station, available_types) ==
    IF ~(origin_station.valid /\ dest_station.valid) THEN 15
    ELSE LET distance == StationDistance(origin_station, dest_station)
         IN IF available_types # {}
            THEN IF "metro" \in available_types
                 THEN MinutesAt(distance, 35000, 2)
                 ELSE IF available_types \cap {"rer", "rers"} # {}
                 THEN MinutesAt(distance, 40000, 3)
                 ELSE MinutesAt(distance, 20000, 5)
            ELSE MinutesAt(distance, 5000, 10)

\* The edge stored under f"{origin_name}|{dest_name}".
MatrixEdge(origin_station, dest_station, available_types, t) ==
    [origin |-> origin_station.name,
     destination |-> dest_station.name,
     estimated_time_minutes |->
         EstimateTravelTime(origin_station, dest_station, available_types),
     calculated_at |-> t]

\* The double loop without its test origin_name != dest_name.
TravelTimesWithSelfEdges(stations_df, available_types, t) ==
    { MatrixEdge(o, d, available_types, t) :
          <<o, d>> \in LaDefenseStations(stations_df) \X LaDefenseStations(stations_df) }

\* The double loop over the hub stations: travel_times.
TravelTimes(stations_df, available_types, t) ==
    { MatrixEdge(pair[1], pair[2], available_types, t) :
          pair \in { od \in LaDefenseStations(stations_df)
                               \X LaDefenseStations(stations_df) :
                         od[1].name # od[2].name } }

\* matrix_data
MatrixData(stations_df, available_types, t) ==
    [kind |-> "object",
     timestamp |-> t,
     travel_times |-> TravelTimes(stations_df, available_types, t),
     station_count |-> Cardinality(LaDefenseStations(stations_df))]

\* The ordered pairs of names a stored matrix has an edge for.
EdgeNames(mx) == { <<e.origin, e.destination>> : e \in mx.travel_times }

\* build_travel_time_matrix, whole: nothing for an empty station table;
\* otherwise the matrix of the hub stations is saved over matrix_latest.json
\* (the result of the save is not looked at).
build_travel_time_matrix ==
    \E stations_df \in StationTables, available_types \in ScheduleTypeSets,
       up \in BOOLEAN :
        /\ matrix' =
               IF stations_df # {} /\ up
               THEN MatrixData(stations_df, available_types, now)
               ELSE matrix
        /\ last_build' = [stations_df |-> stations_df,
                          available_types |-> available_types,
                          up |-> up, before_kind |-> matrix.kind,
                          before_edges |-> EdgeNames(matrix), at |-> now,
                          built |-> TRUE]
        /\ last_op' = "build"
        /\ last_get' = NoGet
        /\ last_set' = NoSet
        /\ last_plan' = NoPlan
        /\ last_sweep' = NoSweep
        /\ last_track' = NoTrack
        /\ last_top' = NoTop
        /\ UNCHANGED <<cacheVars, last_put, keyVars, popularity, threadVars>>
        /\ UNCHANGED <<prewarm, synth, ranking, retries, sweeper>>

\* The maintenance loop between two jobs: schedule.run_pending(); time.sleep(60).
run_pending ==
    /\ \E t \in MaintenanceInstants :
        /\ t > now
        /\ now' = t
    /\ last_op' = "tick"
    /\ last_get' = NoGet
    /\ last_set' = NoSet
    /\ last_plan' = NoPlan
    /\ last_sweep' = NoSweep
    /\ last_build' = NoBuild
    /\ last_track' = NoTrack
    /\ last_top' = NoTop
    /\ UNCHANGED <<memory_cache, memory_cache_expiry, s3_objects, last_put>>
    /\ UNCHANGED <<keyVars, popularity, threadVars>>
    /\ UNCHANGED <<prewarm, synth, ranking, retries, matrix, sweeper>>

\* schedule_maintenance: the hourly sweep and the 12-hourly build.
NextMatrix ==
    \/ run_pending
    \/ build_travel_time_matrix
    \/ cleanup_expired_cache

SpecMatrix == Init /\ [][NextMatrix]_vars


\* The estimate at the speed of the fastest transport class present in the
\* schedule data, as stated: rail before metro before bus, walking without
\* schedule data.
FastestClassTime(distance, available_types) ==
    IF available_types = {} THEN MinutesAt(distance, 5000, 10)
    ELSE IF available_types \cap {"rer", "rers"} # {}
    THEN MinutesAt(distance, 40000, 3)
    ELSE IF "metro" \in available_types THEN MinutesAt(distance, 35000, 2)
    ELSE MinutesAt(distance, 20000, 5)

\* C31: for every ordered pair of hub stations (with numeric coordinates) the
\* stored travel-time estimate is the one at the speed of the fastest transport
\* class present in the schedule data (rail 40 km/h, then metro 35 km/h, then
\* bus 20 km/h; walking 5 km/h without schedule data); with both metro and
\* rail present the rail speed is used.
C31_FastestClassSpeed ==
    (last_op = "build" /\ last_build.up /\ last_build.stations_df # {}) =>
        \A o \in LaDefenseStations(last_build.stations_df),
           d \in LaDefenseStations(last_build.stations_df) :
            (o.name # d.name /\ o.valid /\ d.valid) =>
                \E e \in matrix.travel_times :
                    /\ e.origin = o.name
                    /\ e.destination = d.name
                    /\ e.estimated_time_minutes =
                           FastestClassTime(StationDistance(o, d),
                                            last_build.available_types)

\* The ordered pairs of distinct hub-station names of a station table.
HubNamePairs(stations_df) ==
    { <<o.name, d.name>> :
          <<o, d>> \in { od \in LaDefenseStations(stations_df)
                                  \X LaDefenseStations(stations_df) :
                             od[1].name # od[2].name } }

\* What C32 states of the matrix stored after a build.
EdgesOfCurrentInput ==
    /\ matrix.kind = "object"
    /\ EdgeNames(matrix) = HubNamePairs(last_build.stations_df)
    /\ Cardinality(matrix.travel_times) = Cardinality(EdgeNames(matrix))
    /\ \A e \in matrix.travel_times :
        /\ e.origin # e.destination
        /\ e.calculated_at = last_build.at

C35_SweepKeepsLatestMatrix ==
    ( /\ last_op = "sweep"
      /\ last_sweep.matrix_before.kind = "object"
      /\ now < last_sweep.matrix_before.timestamp + BuildPeriodMinutes )
        => matrix = last_sweep.matrix_before


\* C33: when every concurrent request on a key has finished (none of them
\* failed), the in-process tier and the durable tier hold the same entry for
\* the key: the same timestamp and the same payload.
C33_TiersAgreeWhenQuiet ==
    (\A t \in Threads : pc[t] = "idle" /\ ~local[t].failed) =>
        \A k \in DOMAIN memory_cache : memory_cache[k] = s3_objects[k]


\* ---------------------------------------------------------------------------
\* The sweep beside the request traffic: cleanup_expired_cache statement by
\* statement (it holds no lock and runs in the maintenance process).
\* ---------------------------------------------------------------------------

\* The prefixes the request traffic writes under.
EntryPrefixes == {"routes", "api_responses"}

\* The frame of a statement of the sweep.
SweepStep(name) ==
    /\ last_op' = name
    /\ last_get' = NoGet
    /\ last_set' = NoSet
    /\ last_plan' = NoPlan
    /\ last_sweep' = NoSweep
    /\ UNCHANGED <<now, memory_cache, memory_cache_expiry, last_put>>
    /\ UNCHANGED <<keyVars, planVars, threadVars>>
    /\ UNCHANGED <<last_track, last_top, prewarm>>
    /\ UNCHANGED <<synth, ranking, retries, matrix, last_build>>

\* current_time = datetime.now(), once for the whole sweep.
sweep_begin ==
    /\ sweeper.pc = "idle"
    /\ sweeper' = [NoSweeper EXCEPT !.pc = "files", !.current_time = now]
    /\ UNCHANGED s3_objects
    /\ SweepStep("sweep_begin")

\* for file_key in files: cached_data = read_json_from_data_lake(...)
sweep_read ==
    /\ sweeper.pc = "files"
    /\ \E cache_type \in EntryPrefixes :
       \E files \in {ListFilesInDataLake(s3_objects, popularity, matrix,
                                         cache_type, TRUE)} :
       \E i \in DOMAIN files :
           sweeper' = [sweeper EXCEPT !.pc = "read", !.file_key = files[i],
                                      !.cached_data = s3_objects[files[i]],
                                      !.deleted = Absent]
    /\ UNCHANGED s3_objects
    /\ SweepStep("sweep_read")

\* The loops are over.
sweep_end ==
    /\ sweeper.pc = "files"
    /\ sweeper' = NoSweeper
    /\ UNCHANGED s3_objects
    /\ SweepStep("sweep_end")

\* if current_time > expiry_time: self.s3_client.delete_object(Key=file_key),
\* decided on the cached_data read before; deleted is the object the key held
\* when the delete ran.
sweep_delete ==
    /\ sweeper.pc = "read"
    /\ \E expired \in {/\ sweeper.cached_data.kind = "object"
                       /\ sweeper.cached_data.has_timestamp
                       /\ IsExpired(sweeper.cached_data.timestamp,
                                    TtlOfType(TypeOfKey(sweeper.file_key)),
                                    sweeper.current_time)} :
        /\ s3_objects' = IF expired
                         THEN [s3_objects EXCEPT ![sweeper.file_key] = Absent]
                         ELSE s3_objects
        /\ sweeper' = [sweeper EXCEPT
                           !.pc = "files",
                           !.deleted = IF expired THEN s3_objects[sweeper.file_key]
                                       ELSE Absent]
    /\ SweepStep("sweep_delete")

\* The sweep's statements interleaved with the writers of the entries.
NextSweepRace ==
    \/ Tick
    \/ sweep_begin
    \/ sweep_read
    \/ sweep_end
    \/ sweep_delete
    \/ cache_routes
    \/ cache_api_responses

SpecSweepRace == Init /\ [][NextSweepRace]_vars

\* C34: a sweep running beside the request traffic never deletes an entry that
\* is valid at the moment of the deletion: the object a delete of the sweep
\* removed was expired when it was removed (an entry a put refreshed between
\* the sweep's read and its delete survives).
C34_SweepDeletesOnlyExpired ==
    (last_op = "sweep_delete" /\ sweeper.deleted.kind = "object") =>
        IsExpired(sweeper.deleted.timestamp,
                  TtlOfType(TypeOfKey(sweeper.file_key)), now)


\* C36: pre-warming (pre_cache_popular_routes or
\* PreCacheService.pre_cache_popular_combinations) changes neither the hit
\* count nor the last-requested time of any PopularityRecord: no step of a
\* pre-warming run changes a record.
C36_PrewarmKeepsPopularity ==
    [][last_op' = "prewarm" =>
          \A pair \in PopularPairs :
              RecordOf(popularity', pair) = RecordOf(popularity, pair)]_vars


\* C37: a request that validation rejects (origin equal to destination, or an
\* empty mode set: the synthesis returns its "Error" result) leaves all cache
\* state as it was: no entry is written to either tier, and no
\* PopularityRecord is created or incremented.  The key of the request is in
\* neither tier before the request.
C37_RejectedLeavesCacheState ==
    [][( /\ last_op' = "plan"
         /\ last_plan'.computed = 1
         /\ last_plan'.calc = "error"
         /\ last_plan'.key \notin DOMAIN memory_cache
         /\ s3_objects[last_plan'.key].kind = "absent" )
        => /\ s3_objects' = s3_objects
           /\ memory_cache' = memory_cache
           /\ memory_cache_expiry' = memory_cache_expiry
           /\ popularity' = popularity]_vars


\* ---------------------------------------------------------------------------
\* The cached planner against the synthesis it stands for: requests whose
\* queries have one cache key, each answered from the cache or synthesized.
\* ---------------------------------------------------------------------------

\* The clock time of day, in minutes, at instant 0: 06:30, so that the
\* instants 59 and 60 fall in the next clock hour, the first rush hour.
ClockOrigin == 6 * 60 + 30

\* datetime.now() as a clock time.
ClockNow(t) == ClockTime((ClockOrigin + t) \div 60, (ClockOrigin + t) % 60)

\* The queries of the requests: one pair of stations 8 km apart, no status
\* row, today; no departure time, or one of three around a quarter-hour
\* boundary (08:03 and 08:14 in one bucket, 08:15 in the next).
EquivalenceDepartures ==
    {[present |-> FALSE, hour |-> 0, minute |-> 0]}
        \cup [present : {TRUE}, hour : {8}, minute : {3, 14, 15}]

EquivalenceQueries ==
    [origin : {"La Defense"}, destination : {"Chatelet"},
     preferences : {<<<<"time_pref", 10>>, <<"eco_pref", 2>>>>},
     transport_modes : {<<"Metro">>, <<"RER", "Metro">>},
     departure_time : EquivalenceDepartures, date : {1}]

\* What _calculate_routes_with_time is called with for the query at instant
\* t: departure_datetime is today at departure_time, or datetime.now().
SynthQueryOf(q, t) ==
    [origin |-> q.origin, destination |-> q.destination,
     transport_modes |-> Range(q.transport_modes), distance |-> 800,
     departure |-> IF q.departure_time.present
                   THEN ClockTime(q.departure_time.hour, q.departure_time.minute)
                   ELSE ClockNow(t),
     traffic |-> {}]

\* The result of the synthesis as the request handler tells it apart.
CalcOf(result) ==
    IF result.kind = "routes" THEN "routes"
    ELSE IF result.kind = "Error" THEN "error" ELSE "no_routes"

InitEquivalence ==
    /\ InitCache
    /\ InitNoPlan
    /\ InitNoThreads
    /\ InitNoAux
    /\ query1 \in EquivalenceQueries
    /\ query2 = query1
    /\ timed_keys = << >>
    /\ plain_keys = << >>

\* plan_routes_cached_with_time for a query with the cache key of query1
\* (the key "route" stands for its digest); the payload of an entry is the
\* route dict.  synth holds the synthesis of the query at the instant of the
\* request, which the handler runs on a miss only.
plan_routes_cached_with_time_of ==
    \E q \in EquivalenceQueries, up \in BOOLEAN :
        /\ GenerateCacheKeyWithTime(q) = GenerateCacheKeyWithTime(query1)
        /\ CountOf(popularity, "A|B") < MaxCount
        /\ \E fresh \in {CalculateRoutesWithTime(SynthQueryOf(q, now))} :
           \E o \in {PlanRoutesCachedWithTime(popularity, memory_cache,
                         memory_cache_expiry, s3_objects, "route", "A|B",
                         CalcOf(fresh), fresh.routes, now, up, up, up, up)} :
              /\ popularity' = o.popularity
              /\ memory_cache' = o.cache
              /\ memory_cache_expiry' = o.expiry
              /\ s3_objects' = o.objects
              /\ last_plan' = [result |-> o.result, payload |-> o.payload,
                               calc |-> CalcOf(fresh),
                               calc_payload |-> fresh.routes,
                               source |-> o.source,
                               key |-> "route", computed |-> o.computed,
                               wrote |-> o.put, down |-> ~up]
              /\ synth' = [pc |-> "done", query |-> SynthQueryOf(q, now),
                           result |-> fresh]
              /\ query2' = q
              /\ last_op' = "plan"
              /\ last_get' = NoGet
              /\ last_set' = SetInfo("route", o.set)
              /\ last_put' = IF o.put
                             THEN [key |-> "route", done |-> TRUE,
                                   timestamp |-> now,
                                   payload |-> fresh.routes, saved |-> up,
                                   at_capacity |->
                                       /\ "route" \notin DOMAIN memory_cache
                                       /\ Cardinality(DOMAIN memory_cache)
                                              = MemoryCacheLimit]
                             ELSE last_put
              /\ UNCHANGED <<now, query1, timed_keys, plain_keys, threadVars>>
              /\ UNCHANGED <<last_track, last_top, last_sweep, prewarm>>
              /\ UNCHANGED <<ranking, retries, matrix, sweeper, last_build>>

NextEquivalence ==
    \/ Tick
    \/ plan_routes_cached_with_time_of

SpecEquivalence == InitEquivalence /\ [][NextEquivalence]_vars

\* Per mode, the congestion multiplier and the total duration of the routes
\* of a result.
Timing(routes) ==
    { [mode |-> r.mode, congestion_factor |-> r.congestion_factor,
       total_time |-> r.total_time] : r \in routes }

\* C38: with unchanged station and status data, every result served from the
\* cache has, for every mode, the congestion multiplier and the total
\* duration a fresh synthesis of the same query would give at the moment of
\* the hit, for queries with a departure time (any two times of one
\* 15-minute bucket) and for queries without one (bucket "now", synthesized
\* from the clock hour of the moment).
C38_CachedEqualsFresh ==
    (last_op = "plan" /\ last_plan.result = "hit" /\ synth.pc = "done") =>
        Timing(last_plan.payload) = Timing(synth.result.routes)

====
